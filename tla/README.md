# Web4: specifications and proofs

TLA+ models of the Go program in this repository, checked with TLC, and
theorems about them checked with TLAPS. Paths below are relative to the
repository (`core/...`).

## 1. Inventory

Web4 nodes hold *inventories* of units, quote each other prices computed from
their own trade history, sign the quotes and execute barter trades. There is no
global ledger: each node keeps its own state, in memory and optionally in a
directory of JSON files.

| component | state it keeps | operations | talks to |
|---|---|---|---|
| `store` (json.go) | per trade: trade file, `.executing` reservation, `.txn.json` manifest, `.committed.json` record, `.executed.json` marker; per node: inventory, flow and price documents | `PersistExecutedTrade`, `HasExecutedTrade`, `Save*`/`Load*`, `NewJSONStore` with `recoverTransactions` | the file system; called by `node` |
| `node` | inventory, flow records, price state, trade history, `ExecutedTrades`; one mutex per node, one package mutex for executions | `QuoteSell`, `SignQuote`, `ExecuteTrade`, `ExecuteSignedTrade(WithPeerShadow)`, `AddInventory`, `NewNodeWithStore` | `store`, `model`, `price`; called by `handler` |
| `handler` | one `Session` per peer: pending requests, quotes, intents, trades, seen messages | `HandleMessage` for nine message types, `PruneExpired` | `node`, `message`; called by `net` |
| `net` | connection slots, deadlines, message counts | `ListenAndServe`, `PeerRuntime.Serve`, `DialAndServe` | `handler`, `transport` |
| `message`, `transport` | none | sign and verify envelopes, validate payloads, frame | pure functions |
| `model` | none (values, issue/transfer/trade transactions, inventories) | `Validate*Tx`, `Apply*Tx`, checked 64-bit arithmetic | pure functions |
| `policy` | none | `EvaluateIssue`, `EvaluateTransfer` | `model` |
| `price` | none | `ComputePrice` | floating point |
| `sim` | scores, holdings, price tables, observations and sums of a run | `RunMarketSimulation`, `RunMultiMarketSimulation`, `RunDynamics`, `RunLocalDynamics`, single-threaded | floating point |
| `canonical`, `crypto` | none | encoding, hashes, ed25519 | external to the models |
| `internal/cli`, `cmd` | none | argument parsing | the others |

What is hard here, and what correctness means:

* **store.** A trade installs seven files by renames; any operation may fail and
  the process may die between any two. Correct: the batch is all or nothing, an
  acknowledged trade is rejected as a replay for ever, a trade is acknowledged
  once, recovery completes every committed trade and never marks what is not
  installed.
* **node.** Goroutines of several connections share nodes; execution takes three
  mutexes, quoting two. Memory, replay set and documents must change together.
  Correct: a signed trade takes effect once, resources are conserved in memory
  and never multiplied by a restart, nobody waits for ever.
* **handler.** Each side keeps its own view of a negotiation; messages may be
  rejected, repeated or late, quotes expire. Correct: a side executes only what
  both signed in this session, once, and keeps nothing that has lost its quote.
* **net.** Slots and message limits, per-connection sessions over one node.
  Correct: slots are released on every path, a rejected message ends or keeps
  the connection as the code says, never both.
* **model, policy.** Sums of 64-bit amounts, transfer depth, expiries; making a
  transfer and validating one are two pieces of code; nothing marks a value as
  spent. Correct: what one makes the other accepts, transfers conserve every
  unit, no chain of them outlives what it stands on or looks fresh from an issuer,
  and what a policy accepts names a trusted issuer all the way back.
* **sim.** All trades of a step use prices read at its start while each of them
  moves the scores and holdings behind those prices; `Add` clamps at zero; the
  dynamics hinge on a threshold. Correct: trades conserve every asset, serve
  needs only and do not drive connected nodes apart, and off the threshold
  acceptance moves in one direction.

## 2. Modules

| module | models | relation |
|---|---|---|
| `TradeLedger` | what `node.Store` promises of an executed trade | abstract |
| `JSONStore` | `core/store/json.go`, one action per file operation | implements `TradeLedger` (`ImplementsLedger`) |
| `JSONStoreProofs` | theorems about `JSONStore` under any races and faults | extends it |
| `JSONStoreBatchProofs` | theorems about its documents under serialised calls | extends `JSONStoreProofs` |
| `NodeTrade` | `core/node/trade.go` and what it calls, one action per lock, check, write and return | takes `PersistExecutedTrade` as one step, as the store runs justify |
| `NodeTradeProofs` | theorems about `NodeTrade` | extends it |
| `NodeTradeTotalProofs` | theorems about its totals: holdings, documents and flow | extends `NodeTradeProofs` and `Sums` |
| `Negotiation` | `core/handler` with the server side of `core/net`, one action per message handler and per node operation | takes the execution of a trade as one step, as the node runs justify |
| `NegotiationProofs` | theorems about `Negotiation` | extends it |
| `Values` | `core/model/issue.go`, `transfer.go`, `validate.go`: the transactions that exist | |
| `Policy` | `core/policy/policy.go` | extends `Values` |
| `Inventories` | `ApplyStructuralIssueTx`, `ApplyTradeTx` of `core/model/protocol.go` | extends `Values` with the inventories |
| `ValuesProofs` | theorems about `Values`, `Policy` and `Inventories` | extends the last two and `Sums` |
| `Sums` | lemmas about the sum of a function over a finite set | used by the proofs above |
| `Scores` | score arithmetic, neighbourhoods and acceptance of `core/sim` | |
| `Scenarios` | the starting states of the market simulations | extends `Scores` |
| `Simulation` | the loops of the four simulations, one action per trade | extends `Scenarios` |
| `SimulationProofs` | theorems about `Simulation` | extends it and `Sums` |
| `MCJSONStore`, `MCNodeTrade`, `MCNegotiation`, `MCValues`, `MCSimulation` | the instances for TLC | |

### JSONStore

`executed`, `committed`, `reserved` are the sets of trades that have the
respective file, `manifest[t]` the phase in its manifest, `content[f]` the label
of a trade file or document: the trade whose call wrote it, `Genesis`, or
`Absent`. `pc`, `call`, `done`, `aside`, `saved` and `ok` are the local state of
one `PersistExecutedTrade` call. Each action is one file operation another call
or a recovery could see; its second disjunct, where it has one, is the I/O error
(only for the operations in `FaultPoints`). `Crash` forgets the local state and
keeps the files; `Open` and the `Recover...` actions are `NewJSONStore`.

Abstractions, all named here because a reader should know them:

* Two documents per call stand for six (inventory, flow and prices of two
  parties): the code treats all files of a batch alike.
* `HasExecutedTrade` tests four files one after the other; the model does it in
  one step. What a concurrent call could hide from it that way is created with
  `O_EXCL` later, so the race is decided there.
* Staging temporary files is part of `Apply`: they are invisible to everything
  else. Leftover `.tmp`/`.bak` files after a crash are ignored, as recovery does.
* `Tidy` and the deferred removals ignore errors (`remove`), as the code does.
  `RecoverExecuted` takes its three ignored removals (json.go:756-758) in one step
  that does not fail: an artifact left behind there is met by the same step of the
  next recovery.
* A crash is the end of the process: completed renames are not lost. (The code
  syncs directories on a best-effort basis; loss of a synced write is not
  modelled.)
* `Isolated` says whether calls are serialised. Within one process the node's
  `signedTradeExecutionMu` does that; callers that share a directory in other
  ways race, and the race run covers them.

### NodeTrade

`inv[n]` is the map of a node's holdings, with the entry of zero that
`InventoryState.Sub` leaves behind; `volume[n]` the `TradeVolume` of its flow
records; `seen[n]` its `ExecutedTrades`; `disk`, `diskFlow`, `ledger` the
store's documents and replay evidence; `mutex` and `lock[n]` the mutexes;
`pc[c]`, `job[c]` the call of goroutine `c`; `unmarked` the trades whose persist
call failed at the marker, after which the store refuses to open. A signed quote
is one constant record (`Terms`). `applied` and `minted` are histories used by
properties only.

* Signatures, keys and the agreement of both intents with the quote are checked
  on immutable arguments: a call whose arguments fail them is a `Refuse`.
* The price conditions of `acceptQuoteLocked` are floating point over history;
  `Refuse` is therefore always possible at the checks, and the step that goes on
  carries all the other guards.
* `SettledVolume` is at most `TradeVolume` of the same unit (both grow in
  `recordSuccessfulTrade`, the first restarts at zero), so its overflow check
  adds nothing; payment volume grows with trade volume too.
* The deferred unlocks are one step: releasing one lock earlier only lets others
  go on earlier.
* A panic ends the process: nothing in the program recovers.

### Negotiation

One node with a store serves connections of one peer (`Server.PeerPublicKey` is
one key). A slot `s` is `free`, `reading`, or in the middle of a node operation
(`quoting` is `QuoteSell`, `answering` and `signing` are `SignQuote`,
`executing` is `ExecuteSignedTradeWithPeerShadow`) on `work[s]`. `session[s]`
has the four maps of `handler.Session`: the request under each id, the pending
quotes, the intents as pairs of a quote and a party, and the pending trades.
`remembered` and `ledger` are the two replay guards of the node. `given`,
`signatures` and `executed` are histories; `signatures` also says which local
signatures the peer can present, on any later connection.

* The handlers are split where they call the node: its locks may be held by
  another connection, so the clock and the other connections move in between.
  The rest of a handler touches only its own session, in one goroutine.
* A quote is its id (`quoteID` hashes every field). What an intent signs is
  `Bargain(q)`: terms and timestamp, not the request. The id of an authorized
  trade depends on the bargain and its two deterministic signatures only.
* A quote that is not executable has price 0. Asks, bids and spreads are not
  modelled: every reject that changes nothing, theirs included, is
  `Acknowledge`, which is possible at any time; so are the refusals of
  `SignQuote` and of the execution.
* Whatever ends a connection and does nothing else is `Hangup`: invalid frames,
  envelopes and payloads, a repeated message id, a read deadline, a failed
  write, the end of the stream. The session is dropped with the connection.
* The local node is always the seller: `PendingRequests` is written by
  `handleQuoteRequest` only, and `DialAndServe` does not register the requests
  it sends. An execution changes the local node only (the other party is a
  shadow) and is refused without a store.
* The authorized trade is matched with any pending quote of its terms, since
  the code takes the first in the order of a Go map.
* `PruneExpired` is not modelled: nothing calls it.
* Failed writes that leave evidence behind (violation 2 below) are not repeated
  here: a failed execution has no effect.

### Values, Policy, Inventories

The state of `Values` is the set of transactions that exist: `issued` holds the
outputs of issues, `transfers` the transfers. There is no ledger of values in the
code and no set of spent ones, so every output stays available as an input; what
the program can promise is about each transaction and about chains of them.
`Issue` and `Transfer` are a caller that uses `NewIssueTx` and `NewTransferTx`;
`ReceiveIssue` and `ReceiveTransfer` are a node that validates what somebody
signed by other means. `Policy` adds the answers of `EvaluateIssue` and
`EvaluateTransfer` to those transactions; a policy keeps no state. `Inventories`
adds the holdings that transactions are applied to.

* A value is its record: `ValueIDFor` hashes every field, and a signature is the
  author in the record that carries it. `CreatedAt`, which the constructors
  leave zero, is left out, so two outputs that agree in all else are one value,
  as they have one id in the code.
* Inputs are any `Presentable` values: those that a transaction gave out, and
  those of `Presented`, which nobody need have given out. `ValidateTransferTx` and
  `EvaluateTransfer` ask that an input hashes to its id, belongs to the author and
  names an issuer; they look its provenance up nowhere, and the repository's own
  tests (`core/model/model_test.go`) transfer values that were never issued. A
  value that names an issuer is therefore no evidence that this issuer created it.
  `Foreign` are the inputs in use that no transaction gave out, `Roots` these and
  the issues; `ExpiryLineage` and `AcceptedStandsOnTrust` are about roots and say
  nothing of an issue behind them.
* Expiries are natural numbers. A negative one, which the code's `int64` permits,
  behaves like one that has passed.
* A caller of `NewTransferTx` asks for any outputs of `Drafts`, those of an
  absent owner, an amount out of range or the wrong issuer included.
* Amounts are unbounded integers inside a sum and compared with `MaxAmount` where
  the code checks; depths wrap at `MaxUint32` as `uint32` does.
* `Inventories` makes transactions first and applies them afterwards. The two
  commute: making one never reads an inventory.
* `ApplyStructuralIssueTx` checks neither signature nor issuer nor novelty. The
  model applies sets of circulating values of one unit; `minted` is the history
  of what it was given.

### Scores, Scenarios, Simulation

Each simulation is one goroutine. `StartStep` is the head of a step
(consumption, production, their pressure on the scores, substitution, reading the
price table); `DemandTrade`, `ArbitrageTrade` and `CrossAssetTrade` are one trade
each; `EndDemand` and `EndTrading` leave a loop, `EndStep` moves every node
towards its neighbourhood. `Dynamics` is a whole step of `RunDynamics` or
`RunLocalDynamics`. `cursor` is the place in the nested loops: the next trade is
the first quote, in the order of the loops, behind the last.

* Scores, rates, quantities and weights are hundredths. Where the code divides
  floats, the model rounds down, except for the quantity asked for in a
  cross-asset trade: rounded up, so that it is never zero where the code's is
  not. What the properties of the markets compare does not depend on the rounding;
  properties of single numbers (exact prices, convergence rates) are not stated.
* The dynamics compare a computed score with `tau`, and there rounding decides: in
  float64 `0.7 + 1.0 * (0.1 - 0.7)` is below `0.1`, so an accepting node leaves
  although the share met `tau` exactly. `TowardRounded` therefore adds a slip of a
  hundredth either way, chosen for every node in every step (`Roundings`); it
  covers float64's rounding and that of the share, and never turns a score away
  from its goal, as `score + alpha*(m-score)` does not. `BandwagonNeverTurns`
  claims nothing of a share within a hundredth of `tau`.
* The scenarios are those of the code with its numbers. The random ones are the
  three draws of `SomeDraws`, extremes included.
* Prices of the pipeline model (`core/price`) are any table of `PipelineTables`:
  at most 1 with one asset (a clamped score, averaged with earlier prices and
  decayed), any number with two, where the need of a node multiplies the price.
  With them `StepNeverDiverges` is not claimed: prices need not follow scores.
* The observation history (at most 1024, with weights, averages and decay), the
  settled volumes and last trade steps that go with it, the counters of switches
  and trades, the sums of volumes, payments and flows, the metrics and the
  summaries are left out: they only feed summaries and the prices of the pipeline,
  which are any table here. What is settled is rounded to `AmountScale` by
  `FromFloat` and dropped when nothing is left (market.go:172,
  multi_price.go:100-103), so these sums do not add up to the trades and no
  property says that they do. Of the flows, `books` keeps what was fulfilled,
  produced and consumed.
* `IsConfig` says what a configuration is; `ValidateMarketConfig`,
  `ValidateMultiMarketConfig` and `validateDynamicsConfig` refuse others.

## 3. Runs

| run | instance | shows |
|---|---|---|
| `store_crash` | 2 trades, 1 caller at a time, 2 errors, 2 crashes | the batch is all or nothing, visible state is replay evident, the marker comes last, recovery refuses no committed trade |
| `store_race` | 2 callers unserialised, 1 error anywhere outside the undo, 1 crash | acknowledged once, evident for ever; refinement of `TradeLedger` |
| `store_record_error` | an error of the commit record, 1 crash | **violated**: recovery marks a trade whose documents were rolled back |
| `store_mark_error` | an error of the marker | **violated**: a failed call leaves its documents and evidence |
| `node_stored` | 3 nodes of one store, 2 trades with a common party, 2 goroutines, failing writes, crashes | conservation across restarts, documents never ahead of memory, flow counts the ledger |
| `node_mixed` | 2 stored and 2 storeless nodes; signed, one-sided and unsigned trades in both directions | replay, conservation, no deadlock |
| `node_restart` | 3 stored nodes, one goroutine | **violated**: a holding of exactly zero cannot be loaded |
| `negotiation_shared` | 2 connections, 1 request, 3 messages each, crashes, shutdown | a bargain executes once, and only on the connection where it was negotiated |
| `negotiation_alias` | 1 connection, 2 requests of the same terms, every expiry, 4 messages | sessions keep nothing orphaned; slots come free |
| `negotiation_expiry` | 1 connection, 1 request | **violated**: a quote that expires while the call waits is executed |
| `values` | 2 nodes, 2 units, 2 values that nobody issued, 3 transactions of up to 2 inputs and outputs, 3 applied, 3 policies | made transfers are valid, transfers conserve, lineage of expiries and depths, what a policy accepts stands on trust and can move on, inventories hold what was minted |
| `simulation` | every scenario and topology, with demand, cycles, substitution, pipeline prices and trade limits, 5 steps | trades conserve, serve needs, never drive nodes apart; global acceptance never turns off the threshold |

Bounds. Two trades are enough for one to overwrite the documents of the other
and for a stale artifact of the first to meet the second; two errors and two
crashes let a recovery itself fail or crash and be repeated. The fault set of
`store_crash` is the set from which the code recovers completely
(`RecoverableFaults`); with the others the violations below appear. In the race
one error suffices to make one call roll back under the other; with two, and
callers that are not serialised, rollbacks may restore each other's documents,
which is why the document properties are checked under serialised calls only.
No run lets the undo of a file fail: `AcceptedIsReplayEvident` holds all the same
(and is proved for any failing operation), but it speaks of evidence, not of the
mixed documents that such an undo leaves.
In the node runs crashes are unbounded, `MaxMint` and `MaxAmount` are chosen so
that a node can hold nothing, exactly what it sells, more, and too much, and so
that flow counters overflow; the clock passes from "in the future" through
"fresh" to "expired".

In the negotiation runs three messages are a whole negotiation (request, intent,
authorized trade) and four add the quote response or a repetition; connections
are opened again and crashes happen without bound, so a bargain can be
negotiated anew after it was executed. Three values of the clock and of expiries
(0 is "never") are before, at and after. Slots and requests are interchangeable
in the run without liveness.

In `values` the largest amount is 2 and the largest depth 2, so that two inputs
overflow a sum and two hand-overs exhaust the depth; drafts go to amount 3. At
the one time a policy is asked, the expiries 0, 1 and 2 are never, expired and
fresh. Three transactions are, for instance, two issues of different expiry and a
transfer that merges them, or an issue, a transfer of it, and one that splits the
presented value of the same kind down to the last depth; the second presented
value names the wrong issuer of its unit. Three applied transactions
issue to a node, trade, and trade back or overflow. The behaviour ends at these
bounds, and the simulations end after their steps: both runs switch the deadlock
check off. Five steps let the demand scenarios run out of surplus, the cycles
start demand again, and the dynamics settle. They are rounded down, up, exactly
or differently from node to node, with `tau` on and off the shares that occur.
TLC's markets have two assets; the theorems are for any number.

Fairness. In `NodeTrade` a started call goes on (weak fairness of each
goroutine's own steps: the Go scheduler is preemptive and persisting returns).
Lock acquisition is strongly fair: a `sync.Mutex` in starvation mode is handed to
the longest waiter. In `Negotiation` an operation goes on, and a connection that is
being read is weakly fair: something arrives or its deadline ends it (the whole
frame has one deadline). Nothing is assumed about crashes, restarts or new calls.

## 4. What the violations show

1. `store_record_error`: when `writeCommitRecordExclusive` fails, the batch is
   rolled back while the manifest still says `committed`; a crash before the
   manifest is removed makes recovery create the marker over the old documents.
2. `store_mark_error`: when the marker cannot be created, the error is returned
   without a rollback; the commit record stays and its manifest is removed, so
   the next `NewJSONStore` refuses to open. The node keeps its old inventory in
   memory although the documents changed.
3. `node_restart`: selling a whole holding leaves an entry of zero, which
   `LoadInventory` (and `combinedInventory` in the next trade) pass to
   `AddChecked`, which refuses it; `Add` panics.
4. `negotiation_expiry`: `authorizedNegotiation` checks the expiry, then the
   execution waits for `signedTradeExecutionMu`; under the mutex only the age
   limit of 24 hours is checked. A quote of `QuoteSell` expires in the second it
   was made, so a short wait is enough.

Not a violation, but close to the code's limits: two requests for the same terms
in the same second have quotes that no intent can tell apart.
`authorizedNegotiation` takes the first one in the order of a Go map; if nobody
signed that one, a negotiated trade is refused and the connection ends. The
repository promises nothing of such requests; `Negotiation` allows every choice,
and the safety properties hold for all of them.

## 5. Proofs

`JSONStoreProofs` proves, for every set of trades, callers, documents, failing
operations and bounds allowed by `ConstantsAssumption`:

* `TypeCorrect`: `Spec => []TypeOK`.
* `AckInvariant`: `Spec => [](TypeOK /\ AckInv)`. `AcceptedAtMostOnce` is not
  inductive: that a return is counted once depends on who holds which exclusive
  record at which step. `AckInv` says it: a caller past `mark` that will return
  nil has the marker in place and no return counted, no two callers are there
  for one trade, and a counted return has its marker.
* `AcceptedStaysEvident`, `AcceptedOnce`: the two safety properties, from it.
* `StoreImplementsLedger`: every step of the store is a step of `TradeLedger` or
  leaves `executed` and the returns alone.

`NegotiationProofs` proves, for every set of slots, requests, deals and prices
and every limit allowed by `ConstantsAssumption`:

* `TypeCorrect`: `Spec => []TypeOK`. Inductive only together with
  `QuotesAnswerRequests`: while `QuoteSell` runs, its request is pending.
* `ExecutesOnce`: from `LedgerInv`, what was executed is in the ledger.
* `OwnNegotiation`, `NoOrphans`: both from `ConsentInv`. Its part `Consistent`
  is about one session and the signatures given on its connection; there is one
  lemma per operator on sessions (store, ask, clear, add an intent, add a trade)
  saying that it keeps a session consistent, and one per way a step may update a
  slot. The rest of `ConsentInv` ties the operation in progress to the session:
  a quote that is being signed or executed is still pending, and what is being
  executed was signed by both.

`JSONStoreBatchProofs` proves, for any number of trades, callers, documents,
errors and crashes, under two assumptions:

* `Recoverable`: calls are serialised (the node's `signedTradeExecutionMu`) and
  neither the commit record nor the marker nor the undoing of a file meets an
  error. With an error of the record or the marker the theorems are false, as
  violations 1 and 2 show; an undo that fails leaves a store that must not open.
* `DistinctDocs`: a call writes no document twice. The parties of a trade differ.

`AllOrNothing` (`DocumentsAgree`), `VisibleIsEvident` (`VisibleIsReplayEvident`),
`MarkerComesLast` (`MarkerMeansInstalled`), `NotReinstalled` (`NeverReinstalled`)
and `CommitsRollForward` (`CommittedRollsForward`) follow from `BatchInv`, the last
together with `RecordInv`: a commit record without a marker has its manifest, which
no step removes before the marker is there. The core of `BatchInv` is `Undoable`:
at every step of a call there is one earlier state of all documents, and the installed files,
the file set aside, the backups and the untouched files together still hold it.
`Progress` ties the artifacts of the call to its step; `CommitInv` says that a
commit which recovery would roll forward has all its files in place; `Stuck`
covers a crash inside a batch, after which the store does not open. One lemma per
step of a batch (move aside, install, remove, restore, commit, ...) keeps it.

`NodeTradeProofs` proves, for any nodes, quotes, goroutines, faults and bounds:

* `TypeCorrect`: `Spec => []TypeOK`, and with it that no holding becomes negative
  or overflows. Not inductive alone: what is written at the commit was computed
  from holdings that were checked two steps before. `LockInv` says who holds
  which mutex at which step, `PreparedInv` that what was checked under the locks
  still holds at the commit because nobody else can reach the two nodes.
* `AppliesOnce` (`AppliedAtMostOnce`), from `AppliedInv`: a trade that took effect
  is in the ledger or, for nodes without a store, in both replay sets, and
  whoever is about to persist a trade is the first.
* `DocumentsCovered` (`MemoryCoversDisk`), from `CoverInv`: a document is ahead of
  memory only between the persist and the commit of one call, and then holds what
  the commit will write. It assumes that no marker write fails (violation 2
  breaks it) and that unsigned trades are made by nodes without a store only (an
  unsigned trade changes memory and no document).

`NodeTradeTotalProofs` adds what the nodes hold together, for any finite set of
nodes:

* `Conservation` (`TradesConserve`), under no further assumption: a commit writes
  what the two parties were prepared to hold, and what one gives the other gets.
* `NeverDuplicated` (`NothingFromNothing`): the documents add up to no more than
  was credited, since a persist replaces the documents of two parties by what
  their memory is about to become, while every other document is covered by its
  node. That no second call is between its persist and its commit then is
  `MutexInv`: a call that works holds `signedTradeExecutionMu`.
* `FlowIsLedger` (`FlowCountsLedger`): `FlowInv` adds that the volume in memory
  and the flow document agree but for the call that is about to commit, and that
  a trade about to be persisted is not in the ledger.

The last two make the assumptions of `DocumentsCovered`, and need them: with an
unsigned trade of a node with a store the document keeps what memory gave away,
and after a failed marker write memory keeps what the documents gave away.

`Sums` is what these proofs count with. `SumFunctionOnSet` of the community
modules is a recursion over the subsets of the set, each without a chosen
element. The library's induction theorems take an operator and cannot be used
here, so `SumExists` builds the function level by level (the sets of up to `n`
elements), with sets of naturals in place of predicates and a least
counterexample in place of an induction step; `SumUnique` shows that the level
does not matter. From the recursion follow the laws the proofs cite: adding,
removing and changing an element, sums of sums, moving an amount between two
elements, order, bounds, `SumPartition` (groups of elements add up to the whole) and
`SumImage` (a list without repetitions adds up like its set).

`ValuesProofs` proves, for all units, amounts, depths, expiries, drafts, policies
and bounds:

* `TypeCorrect`, `MadeIsValid` (`MadeTransfersAreValid`): the normalisation of
  `transfer.go` meets the checks of `validate.go`.
* `Lineage` (`ExpiryLineage`) and `FreshIsIssued` (`FreshValuesAreIssued`), each
  inductive with the types: an output descends from an input of its kind, and
  `StandsOn` is transitive. An input that nobody gave out is a root until an output
  equal to it is made; whatever stood on it then stands on that output's root, and
  depths, which grow from input to output, keep that from running in circles
  (`RootsStep`).
* `StandsOnTrust` (`AcceptedStandsOnTrust`): from `Lineage` and the least-trust
  score. Any values may be presented; that a root was issued is not claimed.
* `Conserved` (`TransfersConserve`): the fold with the overflow check is a
  recursion of its own; `CheckedSumFacts` shows, for any order of the amounts,
  that it reports an overflow exactly when the integers exceed the limit, and
  equals their sum otherwise. That inputs are unique makes the sum over the list
  the sum over the values (`SumImage`).
* `MovesOn` (`AcceptedCanMoveOn`): the hand-over of an accepted value passes
  every check of `ValidateTransferTx`, and conservation ties the issuer of an
  accepted output to a trusted issuer of the inputs.
* `InventoriesExtendValues`: applying transactions changes no circulating value,
  so all of these hold of the composed specification too.
* `InventoryTypeCorrect` (`InventoryTypeOK`) and `OnlyIssuesMint`
  (`InventoryIsMinted`), inductive together with the types of the values. The
  first rests on `checkTradeInventoryCoverage` summing a party's inputs, the
  second on `checkTradeConservation`; `WorthByOwner` turns the shares of the
  owners into the worth of a set of values.

`SimulationProofs` proves all five properties of the run `simulation`, for every
scenario, number of nodes and assets, topology, price table, option and number of
steps that `SimulationAssumption` allows (clusters are disjoint; of the programs
only the multi-asset market has more than one asset):

* `SimulationTypeCorrect` (`SimulationTypeOK`). `IInv` adds `PhaseInv`: only
  markets are inside a step, whose number is then at least 1, and arbitrage is for
  one asset with prices of at most 1. `UpcomingFacts` is the limit: whatever comes
  next is within it. `DemandFacts`, `ArbitrageFacts` and `CrossFacts` say what a
  trade that comes next may rely on; everything below uses them.
* `MarketsConserve` (`GroupsConserve`): `MovedFacts` shows that the clamp of
  `InventoryState.Add` is never reached, since a quote is computed from the
  holdings of the moment and asks for no more than the giver has; in a cross-asset
  trade the second move still finds what the first left. `SameGroup` needs the
  clusters to be disjoint.
* `TradesDoNotDiverge` (`StepNeverDiverges`), from `QuotedInv`, which adds that
  prices without the pipeline are scores: a clearing price lies between two prices
  of the group, the mean of a neighbourhood lies within its group (`MeanFacts`),
  and a rounded move towards a goal never passes it (`TowardInside`).
* `OnlyNeedsFulfilled` (`FulfilledWasNeeded`): after a trade of at most the
  seller's surplus and the buyer's need, the seller is not in need and the buyer
  has no surplus (`NeedMoved`), so only one term of each sum changes.
* `NeverTurns` (`BandwagonNeverTurns`): a step never turns away from the share and
  passes it by no more than a hundredth however it is rounded
  (`RoundedBetween`), so that a score on the majority's side of `tau` stays on it
  while the share is off `tau` (`AcceptanceStep`).

These theorems are about the grid of hundredths with its rounding, not about
`float64`; `NeverTurns` is for every rounding that `Roundings` may hold.

Only model-checked is liveness, and with it fairness: `CallsReturn` of the node
and `SlotsComeFree`.

## 6. What is left

Done: the store, its abstract ledger and both sets of proofs; the node and its
proofs; negotiations and their proofs; values, policies and inventories with
their proofs; the simulations and theirs.

Left:

1. Two handlers of this code at the two ends of one connection, on top of the
   session operators of `Negotiation`: which messages `DialAndServe` waits for,
   and what each side can complete when it holds its own intent only. Now the
   peer may send anything that it can sign, which covers the server's side.
2. Two stored nodes that also trade unsigned: memory then leads the documents
   until the next signed trade, and the repository does not say whether that is
   intended.

## 7. Not modelled

* `price`, and the metrics and averages of `sim`: floating-point formulas. Their
  results are inputs of the models (a refusal, a price table).
* `canonical`, `crypto`, the encodings of `message` and `transport`: identifiers
  and signatures are model values, and a frame, envelope or payload that does not
  decode or verify ends the connection (`Hangup`).
* `DialAndServe`: its side of a conversation is the peer.
* `PruneExpired`, `RejectReplay`, `SubInventory`, `LastSeenUnix`: nothing in the
  program calls or reads them.
* `Save...` calls of a single document and `MarkExecutedTrade` on their own: only
  tests make them.
* `cli`, `cmd`, scripts: argument parsing and printing.
