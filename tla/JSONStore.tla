------------------------------ MODULE JSONStore ------------------------------
(***************************************************************************)
(* The crash-recoverable file store of core/store/json.go.                 *)
(*                                                                         *)
(* PersistExecutedTrade installs the authorized trade and the documents    *)
(* (inventory, flow, prices) of the two parties as a sequence of file      *)
(* operations, any of which may fail and between any two of which the      *)
(* process may crash.  NewJSONStore runs recoverTransactions over the      *)
(* artifacts that a crash left behind.  One action is one file operation   *)
(* whose effect another call, or a recovery, can see.                      *)
(*                                                                         *)
(* A document's data is abstracted to a label: the trade whose             *)
(* PersistExecutedTrade call wrote it, Genesis for a document saved before *)
(* any trade, Absent when the file does not exist.                         *)
(***************************************************************************)
EXTENDS Naturals, Sequences

CONSTANTS
  Trades,       \* ids of authorized trades
  Workers,      \* goroutines that call PersistExecutedTrade
  DocOrder,     \* the node documents of one call, in the order of its states
  Genesis,      \* label of a document saved before any trade
  Absent,       \* label of a file that does not exist
  Isolated,     \* TRUE: calls are serialised (node's signedTradeExecutionMu)
  FaultPoints,  \* the operations that may return an I/O error
  MaxFaults,    \* bound on the I/O errors of a behaviour
  MaxCrashes    \* bound on the crashes of a behaviour

Docs == {DocOrder[i] : i \in 1 .. Len(DocOrder)}
Files == Trades \cup Docs
Labels == Trades \cup {Genesis, Absent}

ASSUME ConstantsAssumption ==
  /\ DocOrder \in Seq(Docs)
  /\ Trades \cap Docs = {}
  /\ Genesis \notin Trades /\ Absent \notin Trades /\ Genesis # Absent
  /\ Isolated \in BOOLEAN
  /\ MaxFaults \in Nat
  /\ MaxCrashes \in Nat

VARIABLES
  executed,     \* trades with an .executed.json marker
  committed,    \* trades with a .committed.json record
  reserved,     \* trades with an .executing reservation
  manifest,     \* phase of each trade's .txn.json manifest
  content,      \* label of each trade file and node document
  status,       \* the process: open, down, recovering or refused
  todo,         \* trades whose artifacts recovery has still to examine
  pc, call,     \* next operation and trade of each worker
  done, aside,  \* files installed; whether the next one is moved aside
  saved,        \* label of the backup of each file of the batch
  ok,           \* whether the worker's call will return nil
  acks,         \* history: calls that returned nil, per trade
  faults, crashes

disk == <<executed, committed, reserved, manifest, content>>
batch == <<done, aside, saved>>
process == <<status, todo>>
worker == <<pc, call, ok>>
vars == <<executed, committed, reserved, manifest, content, status, todo,
          pc, call, done, aside, saved, ok, acks, faults, crashes>>

Phases == {"absent", "preparing", "applying", "committed"}
Steps == {"idle", "reserve", "prepare", "apply", "install", "record", "mark",
          "tidy", "unmanifest", "release", "rollback"}

\* The i-th file of a call: the trade file first, then the node documents.
FileCount == 1 + Len(DocOrder)
FileOf(t, i) == IF i = 1 THEN t ELSE DocOrder[i - 1]
NoBackups == [i \in 1 .. FileCount |-> Absent]

HasMarkerOnly(t) == t \in executed
HasArtifactOnly(t) == t \in committed \/ t \in reserved \/ manifest[t] # "absent"

\* HasExecutedTrade: any artifact of an execution counts as replay evidence.
HasExecutedTrade(t) ==
  \/ t \in executed
  \/ t \in committed
  \/ t \in reserved
  \/ manifest[t] # "absent"

\* verifyTransactionManifest: every target of the manifest exists.
TargetsExist(t) == \A i \in 1 .. FileCount : content[FileOf(t, i)] # Absent

\* tradeArtifactID: the files of the trades directory that recovery looks at.
HasArtifact(t) ==
  \/ t \in committed
  \/ t \in reserved
  \/ manifest[t] # "absent"
  \/ content[t] # Absent

\* O_CREATE|O_EXCL: the create fails if the record of t is already there.
NeverTaken(records, t) == FALSE
Taken(records, t) == t \in records

\* The manifest phases of an uncommitted trade that recovery leaves alone.
PendingOrApplying == {"absent", "preparing", "applying"}
PendingPhases == {"absent", "preparing"}

-----------------------------------------------------------------------------
Init ==
  /\ executed = {} /\ committed = {} /\ reserved = {}
  /\ manifest = [t \in Trades |-> "absent"]
  /\ \E l \in {Genesis, Absent} :
       content = [f \in Files |-> IF f \in Docs THEN l ELSE Absent]
  /\ status = "open" /\ todo = {}
  /\ pc = [w \in Workers |-> "idle"]
  /\ call \in [Workers -> Trades]
  /\ \A v, w \in Workers : call[v] = call[w]
  /\ done = [w \in Workers |-> 0]
  /\ aside = [w \in Workers |-> FALSE]
  /\ saved = [w \in Workers |-> NoBackups]
  /\ ok = [w \in Workers |-> FALSE]
  /\ acks = [t \in Trades |-> 0]
  /\ faults = 0 /\ crashes = 0

Goto(w, step) == pc' = [pc EXCEPT ![w] = step]

At(w, step) == status = "open" /\ pc[w] = step

Fault(point) ==
  /\ point \in FaultPoints
  /\ faults < MaxFaults
  /\ faults' = faults + 1

NoFault == UNCHANGED faults

(***************************************************************************)
(* PersistExecutedTrade                                                    *)
(***************************************************************************)

\* The replay check passes and the call goes on to reserve the trade.
Begin(w, t) ==
  /\ At(w, "idle")
  /\ Isolated => \A v \in Workers : pc[v] = "idle"
  /\ ~HasExecutedTrade(t)
  /\ call' = [call EXCEPT ![w] = t]
  /\ Goto(w, "reserve")
  /\ UNCHANGED <<disk, process, batch, ok, acks, faults, crashes>>

\* The replay check fails: "trade replay rejected".
Reject(w, t) ==
  /\ At(w, "idle")
  /\ HasExecutedTrade(t)
  /\ UNCHANGED vars

\* reserveExecutedTrade creates the reservation with O_EXCL.
Reserve(w) ==
  /\ At(w, "reserve")
  /\ \/ /\ ~Taken(reserved, call[w])
        /\ reserved' = reserved \cup {call[w]}
        /\ Goto(w, "prepare")
        /\ NoFault
     \/ /\ Taken(reserved, call[w]) \/ Fault("reserve")
        /\ Taken(reserved, call[w]) => NoFault
        /\ Goto(w, "idle")
        /\ UNCHANGED reserved
  /\ UNCHANGED <<executed, committed, manifest, content, process, batch, call,
                 ok, acks, crashes>>

MisspeltManifest(w, phase) ==
  manifest' = [manifest EXCEPT ![call[w]] =
                 IF phase = "committed" THEN "commited" ELSE phase]
SetManifest(w, phase) == manifest' = [manifest EXCEPT ![call[w]] = phase]

\* The manifest is written with phase "preparing".
Prepare(w) ==
  /\ At(w, "prepare")
  /\ \/ SetManifest(w, "preparing") /\ Goto(w, "apply") /\ NoFault
     \/ Fault("manifest") /\ Goto(w, "release") /\ UNCHANGED manifest
  /\ UNCHANGED <<executed, committed, reserved, content, process, batch, call,
                 ok, acks, crashes>>

\* Every file is staged as a temporary file, then the phase is "applying".
Apply(w) ==
  /\ At(w, "apply")
  /\ \/ SetManifest(w, "applying") /\ Goto(w, "install") /\ NoFault
     \/ Fault("manifest") /\ Goto(w, "unmanifest") /\ UNCHANGED manifest
  /\ UNCHANGED <<executed, committed, reserved, content, process, batch, call,
                 ok, acks, crashes>>

NextFile(w) == FileOf(call[w], done[w] + 1)

\* moveExistingAside renames the next target to its backup.
MoveAside(w) ==
  /\ At(w, "install") /\ done[w] < FileCount /\ ~aside[w]
  /\ \/ /\ saved' = [saved EXCEPT ![w][done[w] + 1] = content[NextFile(w)]]
        /\ content' = [content EXCEPT ![NextFile(w)] = Absent]
        /\ aside' = [aside EXCEPT ![w] = TRUE]
        /\ NoFault
        /\ UNCHANGED pc
     \/ /\ Fault("install")
        /\ Goto(w, "rollback")
        /\ UNCHANGED <<saved, content, aside>>
  /\ UNCHANGED <<executed, committed, reserved, manifest, process, done, call,
                 ok, acks, crashes>>

\* The staged file is renamed to its target.
Install(w) ==
  /\ At(w, "install") /\ done[w] < FileCount /\ aside[w]
  /\ \/ /\ content' = [content EXCEPT ![NextFile(w)] = call[w]]
        /\ done' = [done EXCEPT ![w] = @ + 1]
        /\ aside' = [aside EXCEPT ![w] = FALSE]
        /\ NoFault
        /\ UNCHANGED pc
     \/ /\ Fault("install")
        /\ Goto(w, "rollback")
        /\ UNCHANGED <<content, done, aside>>
  /\ UNCHANGED <<executed, committed, reserved, manifest, process, saved, call,
                 ok, acks, crashes>>

AllButLast(w) == done[w] + 1 >= FileCount
AllInstalled(w) == done[w] = FileCount

\* All files are installed: the manifest gets phase "committed".
CommitPhase(w) ==
  /\ At(w, "install") /\ AllInstalled(w)
  /\ \/ SetManifest(w, "committed") /\ Goto(w, "record") /\ NoFault
     \/ Fault("manifest") /\ Goto(w, "rollback") /\ UNCHANGED manifest
  /\ UNCHANGED <<executed, committed, reserved, content, process, batch, call,
                 ok, acks, crashes>>

\* writeCommitRecordExclusive; on an error the batch is rolled back.
Record(w) ==
  /\ At(w, "record")
  /\ \/ /\ ~Taken(committed, call[w])
        /\ committed' = committed \cup {call[w]}
        /\ Goto(w, "mark")
        /\ NoFault
     \/ /\ Taken(committed, call[w]) \/ Fault("record")
        /\ Taken(committed, call[w]) => NoFault
        /\ Goto(w, "rollback")
        /\ UNCHANGED committed
  /\ UNCHANGED <<executed, reserved, manifest, content, process, batch, call,
                 ok, acks, crashes>>

\* writeExecutedMarkerExclusive; an error returns without a rollback.
Mark(w) ==
  /\ At(w, "mark")
  /\ \/ /\ ~Taken(executed, call[w])
        /\ executed' = executed \cup {call[w]}
        /\ ok' = [ok EXCEPT ![w] = TRUE]
        /\ Goto(w, "tidy")
        /\ NoFault
     \/ /\ Taken(executed, call[w]) \/ Fault("mark")
        /\ Taken(executed, call[w]) => NoFault
        /\ Goto(w, "unmanifest")
        /\ UNCHANGED <<executed, ok>>
  /\ UNCHANGED <<committed, reserved, manifest, content, process, batch, call,
                 acks, crashes>>

\* The backups and the commit record are removed; errors are ignored.
Tidy(w) ==
  /\ At(w, "tidy")
  /\ \/ committed' = committed \ {call[w]} /\ NoFault
     \/ Fault("remove") /\ UNCHANGED committed
  /\ Goto(w, "unmanifest")
  /\ UNCHANGED <<executed, reserved, manifest, content, process, batch, call,
                 ok, acks, crashes>>

\* The manifest is removed, by the success path or by the deferred function.
RemoveManifest(w) ==
  /\ At(w, "unmanifest")
  /\ \/ SetManifest(w, "absent") /\ NoFault
     \/ Fault("remove") /\ UNCHANGED manifest
  /\ Goto(w, "release")
  /\ UNCHANGED <<executed, committed, reserved, content, process, batch, call,
                 ok, acks, crashes>>

\* The deferred removal of the reservation; the call returns.
Release(w) ==
  /\ At(w, "release")
  /\ \/ reserved' = reserved \ {call[w]} /\ NoFault
     \/ Fault("remove") /\ UNCHANGED reserved
  /\ acks' = IF ok[w] THEN [acks EXCEPT ![call[w]] = @ + 1] ELSE acks
  /\ ok' = [ok EXCEPT ![w] = FALSE]
  /\ done' = [done EXCEPT ![w] = 0]
  /\ aside' = [aside EXCEPT ![w] = FALSE]
  /\ saved' = [saved EXCEPT ![w] = NoBackups]
  /\ Goto(w, "idle")
  /\ UNCHANGED <<executed, committed, manifest, content, process, call, crashes>>

(***************************************************************************)
(* rollback undoes the batch from its last file to its first; a file that  *)
(* was installed is removed, then its backup is renamed back.  Errors are  *)
(* ignored.                                                                *)
(***************************************************************************)
LeaveInstalled(w) == content' = content
RemoveInstalled(w) ==
  content' = [content EXCEPT ![FileOf(call[w], done[w])] = Absent]

RollbackRemove(w) ==
  /\ At(w, "rollback") /\ ~aside[w] /\ done[w] > 0
  /\ \/ /\ RemoveInstalled(w)
        /\ NoFault
     \/ Fault("undo") /\ UNCHANGED content
  /\ done' = [done EXCEPT ![w] = @ - 1]
  /\ aside' = [aside EXCEPT ![w] = TRUE]
  /\ UNCHANGED <<executed, committed, reserved, manifest, process, saved,
                 worker, acks, crashes>>

RollbackRestore(w) ==
  /\ At(w, "rollback") /\ aside[w]
  /\ \/ /\ content' = IF saved[w][done[w] + 1] = Absent THEN content
                      ELSE [content EXCEPT ![NextFile(w)] = saved[w][done[w] + 1]]
        /\ NoFault
     \/ /\ saved[w][done[w] + 1] # Absent
        /\ Fault("undo")
        /\ UNCHANGED content
  /\ aside' = [aside EXCEPT ![w] = FALSE]
  /\ UNCHANGED <<executed, committed, reserved, manifest, process, done, saved,
                 worker, acks, crashes>>

RollbackDone(w) ==
  /\ At(w, "rollback") /\ ~aside[w] /\ done[w] = 0
  /\ Goto(w, "unmanifest")
  /\ UNCHANGED <<disk, process, batch, call, ok, acks, faults, crashes>>

(***************************************************************************)
(* A crash forgets every call; the files stay as they are.                 *)
(***************************************************************************)
Crash ==
  /\ status \in {"open", "recovering"}
  /\ crashes < MaxCrashes
  /\ crashes' = crashes + 1
  /\ status' = "down" /\ todo' = {}
  /\ pc' = [w \in Workers |-> "idle"]
  /\ ok' = [w \in Workers |-> FALSE]
  /\ done' = [w \in Workers |-> 0]
  /\ aside' = [w \in Workers |-> FALSE]
  /\ saved' = [w \in Workers |-> NoBackups]
  /\ UNCHANGED <<disk, call, acks, faults>>

(***************************************************************************)
(* NewJSONStore and recoverTransactions                                    *)
(***************************************************************************)
Open ==
  /\ status \in {"down", "refused"}
  /\ status' = "recovering"
  /\ todo' = {t \in Trades : HasArtifact(t)}
  /\ UNCHANGED <<disk, worker, batch, acks, faults, crashes>>

\* "continue" with the next directory entry.
NextEntry(t) == todo' = todo \ {t}

\* An executed trade: the other artifacts are removed.
RecoverExecuted(t) ==
  /\ status = "recovering" /\ t \in todo
  /\ t \in executed
  /\ committed' = committed \ {t}
  /\ reserved' = reserved \ {t}
  /\ manifest' = [manifest EXCEPT ![t] = "absent"]
  /\ NextEntry(t)
  /\ UNCHANGED <<executed, content, status, worker, batch, acks, faults, crashes>>

ApplyingSurvives(t) ==
  t \notin executed /\ (t \in committed \/ manifest[t] \in {"applying", "committed"})

\* A committed trade whose artifacts recovery has to roll forward.
CommitSurvives(t) ==
  t \notin executed /\ (t \in committed \/ manifest[t] = "committed")

\* The executed marker is written; RecoverExecuted then removes the rest.
RecoverCommitted(t) ==
  /\ status = "recovering" /\ t \in todo
  /\ CommitSurvives(t)
  /\ manifest[t] # "absent"
  /\ TargetsExist(t)
  /\ executed' = executed \cup {t}
  /\ UNCHANGED <<committed, reserved, manifest, content, process, worker, batch,
                 acks, faults, crashes>>

\* A reservation, a "preparing" manifest or a bare trade file is left alone.
RecoverPending(t) ==
  /\ status = "recovering" /\ t \in todo
  /\ t \notin executed /\ ~CommitSurvives(t)
  /\ manifest[t] \in PendingPhases
  /\ NextEntry(t)
  /\ UNCHANGED <<disk, status, worker, batch, acks, faults, crashes>>

\* recoverTransactions returns an error and the store does not open.
RecoverRefuse(t) ==
  /\ status = "recovering" /\ t \in todo
  /\ \/ /\ \/ CommitSurvives(t) /\ (manifest[t] = "absent" \/ ~TargetsExist(t))
           \/ t \notin executed /\ ~CommitSurvives(t) /\ manifest[t] \notin PendingPhases
        /\ NoFault
     \/ t \notin executed /\ Fault("recover")
  /\ status' = "refused" /\ todo' = {}
  /\ UNCHANGED <<disk, worker, batch, acks, crashes>>

RecoverDone ==
  /\ status = "recovering" /\ todo = {}
  /\ status' = "open"
  /\ UNCHANGED <<disk, todo, worker, batch, acks, faults, crashes>>

-----------------------------------------------------------------------------
Persist(w) ==
  \/ Reserve(w) \/ Prepare(w) \/ Apply(w)
  \/ MoveAside(w) \/ Install(w) \/ CommitPhase(w)
  \/ Record(w) \/ Mark(w) \/ Tidy(w)
  \/ RemoveManifest(w) \/ Release(w)
  \/ RollbackRemove(w) \/ RollbackRestore(w) \/ RollbackDone(w)

Recover ==
  \/ \E t \in Trades :
       \/ RecoverExecuted(t) \/ RecoverCommitted(t)
       \/ RecoverPending(t) \/ RecoverRefuse(t)
  \/ RecoverDone

Next ==
  \/ \E w \in Workers, t \in Trades : Begin(w, t) \/ Reject(w, t)
  \/ \E w \in Workers : Persist(w)
  \/ Crash
  \/ Open
  \/ Recover

Spec == Init /\ [][Next]_vars

-----------------------------------------------------------------------------
\* Every variable has its type: artifacts are sets of trades, a manifest has
\* one of the three phases or is absent, a batch cursor stays within the batch
\* of PersistExecutedTrade, and no bound of the model is exceeded.
TypeOK ==
  /\ executed \subseteq Trades
  /\ committed \subseteq Trades
  /\ reserved \subseteq Trades
  /\ manifest \in [Trades -> Phases]
  /\ content \in [Files -> Labels]
  /\ status \in {"open", "down", "recovering", "refused"}
  /\ todo \subseteq Trades
  /\ pc \in [Workers -> Steps]
  /\ call \in [Workers -> Trades]
  /\ done \in [Workers -> 0 .. FileCount]
  /\ aside \in [Workers -> BOOLEAN]
  /\ \A w \in Workers : aside[w] => done[w] < FileCount
  /\ saved \in [Workers -> [1 .. FileCount -> Labels]]
  /\ ok \in [Workers -> BOOLEAN]
  /\ acks \in [Trades -> Nat]
  /\ faults \in 0 .. MaxFaults
  /\ crashes \in 0 .. MaxCrashes

\* A trade whose PersistExecutedTrade returned nil is rejected as a replay
\* ever after: HasExecutedTrade finds evidence of it after any crash, failed
\* removal, recovery or race with another call for the same id.
AcceptedIsReplayEvident ==
  \A t \in Trades : acks[t] > 0 => HasExecutedTrade(t)

\* Of all the PersistExecutedTrade calls for one trade id, concurrent or
\* later, before or after crashes, at most one returns nil: the exclusive
\* creates of the reservation and of the marker decide the race.
AcceptedAtMostOnce == \A t \in Trades : acks[t] <= 1

Executing(t) == \E w \in Workers : pc[w] # "idle" /\ call[w] = t

\* Once the store is open again and no call for it runs, a trade whose state
\* is in any file cannot be executed again: an interrupted or failed batch is
\* either undone or leaves an artifact that HasExecutedTrade finds.
VisibleIsReplayEvident ==
  status = "open" =>
    \A t \in Trades : ~Executing(t) /\ (\E f \in Files : content[f] = t)
                        => HasExecutedTrade(t)

\* Between calls an open store never shows the documents of two different
\* moments: inventory, flow and prices of both parties all carry the label of
\* one call, or of none (the batch of PersistExecutedTrade is all or nothing).
DocumentsAgree ==
  (status = "open" /\ \A w \in Workers : pc[w] = "idle") =>
    \A d, e \in Docs : content[d] = content[e]

\* The executed marker of a trade is created, by PersistExecutedTrade or by
\* recovery, only when the trade file and every node document are installed
\* ("commits trade and node state first ... creates the replay marker last").
MarkerMeansInstalled ==
  [][\A t \in executed' \ executed :
       \A i \in 1 .. FileCount : content[FileOf(t, i)] = t]_vars

\* A trade that has its executed marker is never installed again: no late
\* call for it overwrites the documents that later trades have written.
NeverReinstalled ==
  [][\A w \in Workers : call[w] \in executed => done'[w] <= done[w]]_vars

\* A call that returns an error has left no replay evidence of its own,
\* so the trade may be retried (the claim of the store's test
\* TestJSONStoreFailedTradePathDoesNotLeaveReplayMarker).
FailureLeavesNoEvidence ==
  [][\A w \in Workers :
       (pc[w] = "release" /\ pc'[w] = "idle" /\ status' = "open" /\ ~ok[w]
          /\ call[w] \notin executed)
         => ~HasExecutedTrade(call[w])']_vars

\* A committed trade never keeps the store from opening: whenever a crash comes,
\* and however often recovery itself fails or crashes, a commit record or a
\* "committed" manifest without a marker is met with its manifest and with every
\* target, so that recoverTransactions completes it.  What it refuses is a batch
\* that was not finished.
CommittedRollsForward ==
  \A t \in Trades : CommitSurvives(t) => manifest[t] # "absent" /\ TargetsExist(t)

\* The replay ledger that the store promises: a trade is executed once, then
\* acknowledged at most once.  The marker file alone implements it, under every
\* crash, I/O error and race of the calls.
Ledger == INSTANCE TradeLedger WITH accepts <- acks
ImplementsLedger == Ledger!Spec
=============================================================================
