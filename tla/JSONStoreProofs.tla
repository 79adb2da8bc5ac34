--------------------------- MODULE JSONStoreProofs ---------------------------
(***************************************************************************)
(* Theorems about JSONStore for any number of trades, callers and          *)
(* documents, any set of failing operations and any number of crashes.     *)
(***************************************************************************)
EXTENDS JSONStore, TLAPS

(***************************************************************************)
(* The files of a call are the trade file and the node documents.          *)
(***************************************************************************)
LEMMA FileOfType ==
  ASSUME NEW t \in Trades, NEW i \in 1 .. FileCount
  PROVE  FileOf(t, i) \in Files
<1>1. CASE i = 1
  BY <1>1 DEF FileOf, Files
<1>2. CASE i # 1
  <2>1. Len(DocOrder) \in Nat
    BY ConstantsAssumption
  <2>2. i - 1 \in 1 .. Len(DocOrder)
    BY <1>2, <2>1 DEF FileCount
  <2>3. QED
    BY <1>2, <2>2 DEF FileOf, Files, Docs
<1>3. QED
  BY <1>1, <1>2

LEMMA FileCountType == FileCount \in Nat \ {0}
<1>1. Len(DocOrder) \in Nat
  BY ConstantsAssumption
<1>2. QED
  BY <1>1 DEF FileCount

LEMMA NoBackupsType == NoBackups \in [1 .. FileCount -> Labels]
BY DEF NoBackups, Labels

(***************************************************************************)
(* Type correctness: every step of a call, of a crash and of a recovery    *)
(* keeps each file's label, each manifest's phase and each batch's cursor  *)
(* in its type.                                                            *)
(***************************************************************************)
LEMMA TypeInit == Init => TypeOK
<1>1. SUFFICES ASSUME Init PROVE TypeOK
  OBVIOUS
<1>2. content \in [Files -> Labels]
  BY <1>1 DEF Init, Labels
<1>3. manifest \in [Trades -> Phases]
  BY <1>1 DEF Init, Phases
<1>4. /\ pc \in [Workers -> Steps] /\ call \in [Workers -> Trades]
      /\ aside \in [Workers -> BOOLEAN] /\ ok \in [Workers -> BOOLEAN]
      /\ acks \in [Trades -> Nat]
  BY <1>1 DEF Init, Steps
<1>5. done \in [Workers -> 0 .. FileCount]
  BY <1>1, FileCountType DEF Init
<1>6. saved \in [Workers -> [1 .. FileCount -> Labels]]
  BY <1>1, NoBackupsType DEF Init
<1>7. faults \in 0 .. MaxFaults /\ crashes \in 0 .. MaxCrashes
  BY <1>1, ConstantsAssumption DEF Init
<1>8. QED
  BY <1>1, <1>2, <1>3, <1>4, <1>5, <1>6, <1>7 DEF Init, TypeOK

LEMMA FaultType ==
  ASSUME TypeOK, NEW point, Fault(point) \/ NoFault
  PROVE  faults' \in 0 .. MaxFaults
BY ConstantsAssumption DEF TypeOK, Fault, NoFault

LEMMA NextFileType ==
  ASSUME TypeOK, NEW w \in Workers, done[w] < FileCount
  PROVE  /\ done[w] + 1 \in 1 .. FileCount
         /\ NextFile(w) \in Files
<1>1. done[w] + 1 \in 1 .. FileCount
  BY FileCountType DEF TypeOK
<1>2. call[w] \in Trades
  BY DEF TypeOK
<1>3. QED
  BY <1>1, <1>2, FileOfType DEF NextFile

LEMMA TypePersist ==
  ASSUME TypeOK, NEW w \in Workers, Persist(w)
  PROVE  TypeOK'
<1> USE DEF TypeOK, At, Goto, disk, batch, process, worker
<1>1. CASE Reserve(w)
  BY <1>1, FaultType DEF Reserve, Steps, NoFault
<1>2. CASE Prepare(w)
  BY <1>2, FaultType DEF Prepare, SetManifest, Phases, Steps, NoFault
<1>3. CASE Apply(w)
  BY <1>3, FaultType DEF Apply, SetManifest, Phases, Steps, NoFault
<1>4. CASE MoveAside(w)
  <2>1. done[w] + 1 \in 1 .. FileCount /\ NextFile(w) \in Files
    BY <1>4, NextFileType DEF MoveAside
  <2>2. Absent \in Labels
    BY DEF Labels
  <2>3. content' \in [Files -> Labels]
    BY <1>4, <2>1, <2>2 DEF MoveAside
  <2>4. saved' \in [Workers -> [1 .. FileCount -> Labels]]
    <3>1. content[NextFile(w)] \in Labels
      BY <2>1
    <3>2. [saved[w] EXCEPT ![done[w] + 1] = content[NextFile(w)]]
            \in [1 .. FileCount -> Labels]
      BY <2>1, <3>1
    <3>3. \/ saved' = [saved EXCEPT ![w] =
                        [saved[w] EXCEPT ![done[w] + 1] = content[NextFile(w)]]]
          \/ saved' = saved
      BY <1>4 DEF MoveAside
    <3>4. QED
      BY <3>2, <3>3
  <2>5. faults' \in 0 .. MaxFaults
    BY <1>4, FaultType DEF MoveAside, NoFault
  <2>6. QED
    BY <1>4, <2>3, <2>4, <2>5 DEF MoveAside, Steps
<1>5. CASE Install(w)
  <2>1. done[w] + 1 \in 1 .. FileCount /\ NextFile(w) \in Files
    BY <1>5, NextFileType DEF Install
  <2>2. call[w] \in Labels
    BY DEF Labels
  <2>3. content' \in [Files -> Labels]
    BY <1>5, <2>1, <2>2 DEF Install
  <2>4. done' \in [Workers -> 0 .. FileCount]
    <3>1. done[w] + 1 \in 0 .. FileCount
      BY <2>1, FileCountType
    <3>2. done' = [done EXCEPT ![w] = done[w] + 1] \/ done' = done
      BY <1>5 DEF Install
    <3>3. QED
      BY <3>1, <3>2
  <2>5. faults' \in 0 .. MaxFaults
    BY <1>5, FaultType DEF Install, NoFault
  <2>6. QED
    BY <1>5, <2>3, <2>4, <2>5 DEF Install, Steps
<1>6. CASE CommitPhase(w)
  BY <1>6, FaultType DEF CommitPhase, SetManifest, Phases, Steps, NoFault
<1>7. CASE Record(w)
  BY <1>7, FaultType DEF Record, Steps, NoFault
<1>8. CASE Mark(w)
  BY <1>8, FaultType DEF Mark, Steps, NoFault
<1>9. CASE Tidy(w)
  BY <1>9, FaultType DEF Tidy, Steps, NoFault
<1>10. CASE RemoveManifest(w)
  BY <1>10, FaultType DEF RemoveManifest, SetManifest, Phases, Steps, NoFault
<1>11. CASE Release(w)
  <2>1. saved' \in [Workers -> [1 .. FileCount -> Labels]]
    BY <1>11, NoBackupsType DEF Release
  <2>2. done' \in [Workers -> 0 .. FileCount]
    BY <1>11, FileCountType DEF Release
  <2>3. acks' \in [Trades -> Nat]
    BY <1>11 DEF Release
  <2>4. faults' \in 0 .. MaxFaults
    BY <1>11, FaultType DEF Release, NoFault
  <2>5. QED
    BY <1>11, <2>1, <2>2, <2>3, <2>4 DEF Release, Steps
<1>12. CASE RollbackRemove(w)
  <2>1. done[w] \in 1 .. FileCount /\ call[w] \in Trades
    BY <1>12 DEF RollbackRemove
  <2>2. FileOf(call[w], done[w]) \in Files
    BY <2>1, FileOfType
  <2>3. content' \in [Files -> Labels]
    BY <1>12, <2>2 DEF RollbackRemove, RemoveInstalled, Labels
  <2>4. done' \in [Workers -> 0 .. FileCount]
    BY <1>12, <2>1, FileCountType DEF RollbackRemove
  <2>5. faults' \in 0 .. MaxFaults
    BY <1>12, FaultType DEF RollbackRemove, NoFault
  <2>6. done[w] - 1 < FileCount
    BY <2>1, FileCountType
  <2>7. \A v \in Workers : aside'[v] => done'[v] < FileCount
    BY <1>12, <2>6 DEF RollbackRemove
  <2>8. QED
    BY <1>12, <2>3, <2>4, <2>5, <2>7 DEF RollbackRemove
<1>13. CASE RollbackRestore(w)
  <2>1. faults' \in 0 .. MaxFaults
    BY <1>13, FaultType DEF RollbackRestore, NoFault
  <2>2. done[w] + 1 \in 1 .. FileCount /\ NextFile(w) \in Files
    BY <1>13, NextFileType DEF RollbackRestore
  <2>3. saved[w][done[w] + 1] \in Labels
    BY <2>2
  <2>4. content' \in [Files -> Labels]
    BY <1>13, <2>2, <2>3 DEF RollbackRestore
  <2>5. QED
    BY <1>13, <2>1, <2>4 DEF RollbackRestore
<1>14. CASE RollbackDone(w)
  BY <1>14 DEF RollbackDone, Steps
<1>15. QED
  BY <1>1, <1>2, <1>3, <1>4, <1>5, <1>6, <1>7, <1>8, <1>9, <1>10, <1>11,
     <1>12, <1>13, <1>14 DEF Persist

LEMMA TypeRecover ==
  ASSUME TypeOK, Recover
  PROVE  TypeOK'
<1> USE DEF TypeOK, disk, batch, process, worker
<1>1. ASSUME NEW t \in Trades, RecoverExecuted(t)
      PROVE  TypeOK'
  BY <1>1 DEF RecoverExecuted, NextEntry, Phases
<1>2. ASSUME NEW t \in Trades, RecoverCommitted(t)
      PROVE  TypeOK'
  BY <1>2 DEF RecoverCommitted
<1>3. ASSUME NEW t \in Trades, RecoverPending(t)
      PROVE  TypeOK'
  BY <1>3 DEF RecoverPending, NextEntry
<1>4. ASSUME NEW t \in Trades, RecoverRefuse(t)
      PROVE  TypeOK'
  <2>1. faults' \in 0 .. MaxFaults
    BY <1>4, FaultType DEF RecoverRefuse, NoFault
  <2>2. QED
    BY <1>4, <2>1 DEF RecoverRefuse
<1>5. CASE RecoverDone
  BY <1>5 DEF RecoverDone
<1>6. QED
  BY <1>1, <1>2, <1>3, <1>4, <1>5 DEF Recover

LEMMA TypeStep == TypeOK /\ [Next]_vars => TypeOK'
<1> SUFFICES ASSUME TypeOK, [Next]_vars PROVE TypeOK'
  OBVIOUS
<1>1. ASSUME NEW w \in Workers, NEW t \in Trades, Begin(w, t) \/ Reject(w, t)
      PROVE  TypeOK'
  BY <1>1 DEF TypeOK, Begin, Reject, Goto, Steps, At, disk, process, batch, vars
<1>2. ASSUME NEW w \in Workers, Persist(w)
      PROVE  TypeOK'
  BY <1>2, TypePersist
<1>3. CASE Crash
  <2>1. crashes' \in 0 .. MaxCrashes
    BY <1>3, ConstantsAssumption DEF Crash, TypeOK
  <2>2. done' \in [Workers -> 0 .. FileCount] /\ \A w \in Workers : ~aside'[w]
    BY <1>3, FileCountType DEF Crash
  <2>3. saved' \in [Workers -> [1 .. FileCount -> Labels]]
    BY <1>3, NoBackupsType DEF Crash
  <2>4. QED
    BY <1>3, <2>1, <2>2, <2>3 DEF Crash, TypeOK, Steps, disk
<1>4. CASE Open
  BY <1>4 DEF Open, TypeOK, disk, worker, batch
<1>5. CASE Recover
  BY <1>5, TypeRecover
<1>6. CASE UNCHANGED vars
  BY <1>6 DEF TypeOK, vars
<1>7. QED
  BY <1>1, <1>2, <1>3, <1>4, <1>5, <1>6 DEF Next

\* In every reachable state of the store, with any set of failing operations,
\* each artifact, file label, phase and batch cursor has its type.
THEOREM TypeCorrect == Spec => []TypeOK
<1>1. Init => TypeOK
  BY TypeInit
<1>2. TypeOK /\ [Next]_vars => TypeOK'
  BY TypeStep
<1>3. QED
  BY <1>1, <1>2, PTL DEF Spec

-----------------------------------------------------------------------------
(***************************************************************************)
(* Replay safety.  The invariant follows the executed marker: a call that  *)
(* will return nil created the marker of its trade, which O_EXCL lets no   *)
(* other call do, and its trade has not been acknowledged yet.             *)
(***************************************************************************)
OkSteps == {"tidy", "unmanifest", "release"}

AckInv ==
  /\ \A w \in Workers : ok[w] => /\ pc[w] \in OkSteps
                                 /\ call[w] \in executed
                                 /\ acks[call[w]] = 0
  /\ \A v, w \in Workers : ok[v] /\ ok[w] /\ call[v] = call[w] => v = w
  /\ \A t \in Trades : acks[t] <= 1 /\ (acks[t] > 0 => t \in executed)

LEMMA AckInit == Init => AckInv
BY DEF Init, AckInv

\* The steps of a call other than the creation of the marker and the return.
QuietStep(w) ==
  \/ Reserve(w) \/ Prepare(w) \/ Apply(w) \/ MoveAside(w) \/ Install(w)
  \/ CommitPhase(w) \/ Record(w) \/ Tidy(w) \/ RemoveManifest(w)
  \/ RollbackRemove(w) \/ RollbackRestore(w) \/ RollbackDone(w)

LEMMA QuietStepFrame ==
  ASSUME TypeOK, AckInv, NEW w \in Workers, QuietStep(w)
  PROVE  /\ UNCHANGED <<executed, call, ok, acks>>
         /\ \A v \in Workers : ok[v] => pc'[v] \in OkSteps
<1>1. CASE Reserve(w) \/ Prepare(w) \/ Apply(w) \/ CommitPhase(w)
  BY <1>1 DEF Reserve, Prepare, Apply, CommitPhase, At, Goto, TypeOK, AckInv,
              OkSteps, batch, process
<1>2. CASE MoveAside(w) \/ Install(w)
  <2>1. ~ok[w]
    BY <1>2 DEF MoveAside, Install, At, AckInv, OkSteps
  <2>2. UNCHANGED <<executed, call, ok, acks>>
    BY <1>2 DEF MoveAside, Install
  <2>3. \A v \in Workers : v # w => pc'[v] = pc[v]
    BY <1>2 DEF MoveAside, Install, Goto, TypeOK
  <2>4. QED
    BY <2>1, <2>2, <2>3 DEF AckInv
<1>3. CASE Record(w)
  BY <1>3 DEF Record, At, Goto, TypeOK, AckInv, OkSteps, batch, process
<1>4. CASE Tidy(w)
  BY <1>4 DEF Tidy, At, Goto, TypeOK, AckInv, OkSteps, batch, process
<1>5. CASE RemoveManifest(w)
  BY <1>5 DEF RemoveManifest, At, Goto, TypeOK, AckInv, OkSteps, batch, process
<1>6. CASE RollbackRemove(w) \/ RollbackRestore(w) \/ RollbackDone(w)
  BY <1>6 DEF RollbackRemove, RollbackRestore, RollbackDone, At, Goto, TypeOK,
              AckInv, OkSteps, batch, process, worker, disk
<1>7. QED
  BY <1>1, <1>2, <1>3, <1>4, <1>5, <1>6 DEF QuietStep

LEMMA AckStep == TypeOK /\ AckInv /\ [Next]_vars => AckInv'
<1> SUFFICES ASSUME TypeOK, AckInv, [Next]_vars PROVE AckInv'
  OBVIOUS
<1>1. ASSUME NEW w \in Workers, NEW t \in Trades, Begin(w, t)
      PROVE  AckInv'
  <2>1. ~ok[w] /\ pc[w] = "idle"
    BY <1>1 DEF Begin, At, AckInv, OkSteps
  <2>2. QED
    BY <1>1, <2>1 DEF Begin, Goto, At, AckInv, TypeOK, disk, OkSteps
<1>2. ASSUME NEW w \in Workers, QuietStep(w)
      PROVE  AckInv'
  BY <1>2, QuietStepFrame DEF AckInv
<1>3. ASSUME NEW w \in Workers, Mark(w)
      PROVE  AckInv'
  <2>1. CASE executed' = executed \cup {call[w]} /\ ~Taken(executed, call[w])
             /\ ok' = [ok EXCEPT ![w] = TRUE]
    <3>1. pc' = [pc EXCEPT ![w] = "tidy"] /\ UNCHANGED <<call, acks>>
      BY <1>3, <2>1 DEF Mark, Goto, Taken, TypeOK
    <3>2. call[w] \notin executed /\ call[w] \in Trades
      BY <2>1 DEF Taken, TypeOK
    <3>3. acks[call[w]] = 0
      BY <3>2 DEF AckInv, TypeOK
    <3>4. \A v \in Workers : ok[v] => call[v] # call[w]
      BY <3>2 DEF AckInv
    <3>5. QED
      BY <2>1, <3>1, <3>2, <3>3, <3>4 DEF AckInv, TypeOK, OkSteps
  <2>2. CASE UNCHANGED <<executed, ok>>
    BY <1>3, <2>2 DEF Mark, Goto, At, AckInv, TypeOK, OkSteps
  <2>3. QED
    BY <1>3, <2>1, <2>2 DEF Mark
<1>4. ASSUME NEW w \in Workers, Release(w)
      PROVE  AckInv'
  <2>1. UNCHANGED <<executed, call>> /\ ok' = [ok EXCEPT ![w] = FALSE]
        /\ pc' = [pc EXCEPT ![w] = "idle"]
    BY <1>4 DEF Release, Goto
  <2>2. CASE ok[w]
    <3>1. acks' = [acks EXCEPT ![call[w]] = acks[call[w]] + 1]
      BY <1>4, <2>2 DEF Release
    <3>2. call[w] \in executed /\ call[w] \in Trades /\ acks[call[w]] = 0
      BY <2>2 DEF AckInv, TypeOK
    <3>3. \A t \in Trades : acks'[t] <= 1 /\ (acks'[t] > 0 => t \in executed')
      BY <2>1, <3>1, <3>2 DEF AckInv, TypeOK
    <3>4. \A v \in Workers : ok'[v] => v # w /\ ok[v] /\ call[v] # call[w]
      BY <2>1, <2>2 DEF AckInv, TypeOK
    <3>5. \A v \in Workers : ok'[v] => acks'[call[v]] = 0
      BY <3>1, <3>4 DEF AckInv, TypeOK
    <3>6. QED
      BY <2>1, <3>3, <3>4, <3>5 DEF AckInv, TypeOK
  <2>3. CASE ~ok[w]
    BY <1>4, <2>1, <2>3 DEF Release, AckInv, TypeOK
  <2>4. QED
    BY <2>2, <2>3
<1>5. CASE Crash
  BY <1>5 DEF Crash, AckInv, disk
<1>6. CASE Open
  BY <1>6 DEF Open, AckInv, disk, worker
<1>7. CASE Recover
  <2>1. executed \subseteq executed' /\ UNCHANGED <<pc, call, ok, acks>>
    BY <1>7 DEF Recover, RecoverExecuted, RecoverCommitted, RecoverPending,
                RecoverRefuse, RecoverDone, disk, worker
  <2>2. QED
    BY <2>1 DEF AckInv
<1>8. CASE UNCHANGED vars
  BY <1>8 DEF AckInv, vars
<1>9. QED
  BY <1>1, <1>2, <1>3, <1>4, <1>5, <1>6, <1>7, <1>8
     DEF Next, Persist, QuietStep, Reject

\* The reservation, commit and marker records that a PersistExecutedTrade call
\* holds at each of its steps, and the returns counted so far, fit together
\* (AckInv): the inductive invariant behind the three theorems that follow.
THEOREM AckInvariant == Spec => [](TypeOK /\ AckInv)
<1>1. Init => TypeOK /\ AckInv
  BY TypeInit, AckInit
<1>2. TypeOK /\ AckInv /\ [Next]_vars => (TypeOK /\ AckInv)'
  BY TypeStep, AckStep
<1>3. QED
  BY <1>1, <1>2, PTL DEF Spec

\* A trade whose PersistExecutedTrade returned nil is rejected as a replay for
\* ever, whatever fails or crashes afterwards.
THEOREM AcceptedStaysEvident == Spec => []AcceptedIsReplayEvident
<1>1. AckInv => AcceptedIsReplayEvident
  BY DEF AckInv, AcceptedIsReplayEvident, HasExecutedTrade
<1>2. QED
  BY <1>1, AckInvariant, PTL

\* No two PersistExecutedTrade calls for one trade return nil.
THEOREM AcceptedOnce == Spec => []AcceptedAtMostOnce
<1>1. AckInv => AcceptedAtMostOnce
  BY DEF AckInv, AcceptedAtMostOnce
<1>2. QED
  BY <1>1, AckInvariant, PTL

-----------------------------------------------------------------------------
(***************************************************************************)
(* The store implements the replay ledger: the creation of a marker, by a  *)
(* call or by recovery, is Execute, the return of nil is Report, and every *)
(* other step stutters.                                                    *)
(***************************************************************************)
LEMMA LedgerStep ==
  ASSUME TypeOK, AckInv, [Next]_vars
  PROVE  [Ledger!Next]_<<executed, acks>>
<1> USE DEF Ledger!Next, Ledger!Execute, Ledger!Report
<1>1. ASSUME NEW w \in Workers, NEW t \in Trades, Begin(w, t) \/ Reject(w, t)
      PROVE  UNCHANGED <<executed, acks>>
  BY <1>1 DEF Begin, Reject, disk, vars
<1>2. ASSUME NEW w \in Workers, QuietStep(w)
      PROVE  UNCHANGED <<executed, acks>>
  BY <1>2, QuietStepFrame
<1>3. ASSUME NEW w \in Workers, Mark(w)
      PROVE  [Ledger!Next]_<<executed, acks>>
  <2>1. call[w] \in Trades /\ acks' = acks
    BY <1>3 DEF Mark, TypeOK
  <2>2. \/ call[w] \notin executed /\ executed' = executed \cup {call[w]}
        \/ executed' = executed
    BY <1>3 DEF Mark, Taken
  <2>3. QED
    BY <2>1, <2>2
<1>4. ASSUME NEW w \in Workers, Release(w)
      PROVE  [Ledger!Next]_<<executed, acks>>
  <2>1. call[w] \in Trades /\ executed' = executed
    BY <1>4 DEF Release, TypeOK
  <2>2. CASE ok[w]
    <3>1. call[w] \in executed /\ acks[call[w]] = 0
      BY <2>2 DEF AckInv
    <3>2. acks' = [acks EXCEPT ![call[w]] = 1]
      BY <1>4, <2>1, <2>2, <3>1 DEF Release, TypeOK
    <3>3. QED
      BY <2>1, <3>1, <3>2
  <2>3. CASE ~ok[w]
    BY <1>4, <2>1, <2>3 DEF Release
  <2>4. QED
    BY <2>2, <2>3
<1>5. CASE Crash \/ Open
  BY <1>5 DEF Crash, Open, disk, batch
<1>6. CASE Recover
  <2>1. ASSUME NEW t \in Trades, RecoverCommitted(t)
        PROVE  Ledger!Execute(t)
    BY <2>1 DEF RecoverCommitted, CommitSurvives
  <2>2. ASSUME NEW t \in Trades,
               RecoverExecuted(t) \/ RecoverPending(t) \/ RecoverRefuse(t)
        PROVE  UNCHANGED <<executed, acks>>
    BY <2>2 DEF RecoverExecuted, RecoverPending, RecoverRefuse, disk
  <2>3. CASE RecoverDone
    BY <2>3 DEF RecoverDone, disk
  <2>4. QED
    BY <1>6, <2>1, <2>2, <2>3 DEF Recover
<1>7. CASE UNCHANGED vars
  BY <1>7 DEF vars
<1>8. QED
  BY <1>1, <1>2, <1>3, <1>4, <1>5, <1>6, <1>7 DEF Next, Persist, QuietStep

\* PersistExecutedTrade, crashes and recovery together implement a ledger that
\* executes every trade at most once and reports it at most once, afterwards.
THEOREM StoreImplementsLedger == Spec => ImplementsLedger
<1>1. Init => Ledger!Init
  BY DEF Init, Ledger!Init
<1>2. TypeOK /\ AckInv /\ [Next]_vars => [Ledger!Next]_<<executed, acks>>
  BY LedgerStep
<1>3. QED
  BY <1>1, <1>2, AckInvariant, PTL DEF Spec, ImplementsLedger, Ledger!Spec
=============================================================================
