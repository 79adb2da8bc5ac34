------------------------- MODULE JSONStoreBatchProofs -------------------------
(***************************************************************************)
(* Theorems about the documents of JSONStore, for any number of trades,    *)
(* callers and documents and any number of errors and crashes, when calls  *)
(* are serialised and neither the commit record, nor the marker, nor an    *)
(* undone file meets an error.  (With an error of the record or the marker *)
(* they are false: see the runs that find the violations.)                 *)
(*                                                                         *)
(* At every moment of a call the batch can be undone: the files installed, *)
(* the backups and the rest together hold one state of the documents.      *)
(***************************************************************************)
EXTENDS JSONStoreProofs

\* The calls and errors under which a batch is all or nothing.
Recoverable ==
  /\ Isolated
  /\ "undo" \notin FaultPoints
  /\ "record" \notin FaultPoints /\ "mark" \notin FaultPoints

\* No document is written twice by one call: the two parties are distinct.
DistinctDocs ==
  \A i, j \in 1 .. Len(DocOrder) : DocOrder[i] = DocOrder[j] => i = j

-----------------------------------------------------------------------------
Idle(w) == pc[w] = "idle"
AtRest(w) == ~ok[w] /\ done[w] = 0 /\ ~aside[w]
Unmarked(t) == t \notin executed /\ t \notin committed

Alone == \A v, w \in Workers : ~Idle(v) /\ ~Idle(w) => v = w

\* What a file of the batch held before the call, if the documents held l.
Old(l, i) == IF i = 1 THEN Absent ELSE l

Batch(w, l) ==
  \A i \in 1 .. FileCount :
    IF i <= done[w]
    THEN saved[w][i] = Old(l, i) /\ content[FileOf(call[w], i)] = call[w]
    ELSE IF i = done[w] + 1 /\ aside[w]
         THEN saved[w][i] = Old(l, i) /\ content[FileOf(call[w], i)] = Absent
         ELSE content[FileOf(call[w], i)] = Old(l, i)

Undoable(w) ==
  \E l \in Labels \ {call[w]} :
    (l \in Trades => HasExecutedTrade(l)) /\ Batch(w, l)

OthersEvident(t) ==
  \A f \in Files : content[f] \in Trades \ {t} => HasExecutedTrade(content[f])

Quiet ==
  /\ \A d, e \in Docs : content[d] = content[e]
  /\ \A f \in Files : content[f] \in Trades => HasExecutedTrade(content[f])

\* What each step of a call knows of its own artifacts.
Progress(w) ==
  /\ pc[w] \in {"reserve", "prepare", "apply"} =>
       AtRest(w) /\ Unmarked(call[w]) /\ manifest[call[w]] \in {"absent", "preparing"}
  /\ pc[w] \in {"install", "rollback"} =>
       ~ok[w] /\ Unmarked(call[w]) /\ manifest[call[w]] = "applying"
  /\ pc[w] \in {"record", "mark", "tidy"} => done[w] = FileCount /\ ~aside[w]
  /\ pc[w] = "record" => ~ok[w] /\ Unmarked(call[w]) /\ manifest[call[w]] = "committed"
  /\ pc[w] = "mark" => ~ok[w] /\ call[w] \notin executed /\ manifest[call[w]] = "committed"
  /\ pc[w] = "tidy" => ok[w] /\ call[w] \in executed
  /\ pc[w] \in {"unmanifest", "release"} =>
       \/ ok[w] /\ call[w] \in executed /\ done[w] = FileCount /\ ~aside[w]
       \/ AtRest(w) /\ Unmarked(call[w]) /\ manifest[call[w]] \in PendingOrApplying

CallOK(w) ==
  IF Idle(w) THEN AtRest(w)
  ELSE status = "open" /\ Undoable(w) /\ OthersEvident(call[w]) /\ Progress(w)

TradeFiles == \A t \in Trades : content[t] \in {t, Absent}

\* A crash inside a batch: recovery will not open the store.
Stuck ==
  status # "open" /\ \E t \in Trades :
    /\ Unmarked(t) /\ manifest[t] = "applying"
    /\ status = "recovering" => t \in todo

RestInv == (\A w \in Workers : Idle(w)) => Quiet \/ Stuck

\* A commit that recovery would roll forward has all its files in place.
CommitInv ==
  \A t \in Trades : CommitSurvives(t) =>
    /\ \A i \in 1 .. FileCount : content[FileOf(t, i)] = t
    /\ status = "open" => \E w \in Workers : ~Idle(w) /\ call[w] = t
    /\ status = "recovering" => t \in todo

BatchInv ==
  /\ Alone /\ TradeFiles /\ RestInv /\ CommitInv
  /\ \A w \in Workers : CallOK(w)

-----------------------------------------------------------------------------
(***************************************************************************)
(* The files of a batch                                                    *)
(***************************************************************************)
LEMMA FilesOfBatch ==
  ASSUME DistinctDocs, NEW t \in Trades
  PROVE  /\ FileOf(t, 1) = t
         /\ \A i \in 1 .. FileCount : i # 1 => FileOf(t, i) \in Docs
         /\ \A d \in Docs : \E i \in 1 .. FileCount : i # 1 /\ FileOf(t, i) = d
         /\ \A i, j \in 1 .. FileCount : FileOf(t, i) = FileOf(t, j) => i = j
         /\ \A i \in 1 .. FileCount, u \in Trades : FileOf(t, i) = u => u = t
<1>1. Len(DocOrder) \in Nat
  BY ConstantsAssumption
<1>2. FileOf(t, 1) = t
  BY DEF FileOf
<1>3. ASSUME NEW i \in 1 .. FileCount, i # 1
      PROVE  /\ FileOf(t, i) = DocOrder[i - 1] /\ i - 1 \in 1 .. Len(DocOrder)
             /\ FileOf(t, i) \in Docs
  BY <1>1, <1>3 DEF FileOf, FileCount, Docs
<1>4. ASSUME NEW d \in Docs
      PROVE  \E i \in 1 .. FileCount : i # 1 /\ FileOf(t, i) = d
  <2>1. PICK k \in 1 .. Len(DocOrder) : d = DocOrder[k]
    BY DEF Docs
  <2>2. k + 1 \in 1 .. FileCount /\ k + 1 # 1 /\ FileOf(t, k + 1) = DocOrder[k]
    BY <1>1, <2>1 DEF FileCount, FileOf
  <2>. QED BY <2>1, <2>2
<1>5. t \notin Docs /\ \A u \in Trades : u \notin Docs
  BY ConstantsAssumption
<1>6. ASSUME NEW i \in 1 .. FileCount, NEW j \in 1 .. FileCount, FileOf(t, i) = FileOf(t, j)
      PROVE  i = j
  <2>1. CASE i = 1 \/ j = 1
    BY <1>2, <1>3, <1>5, <1>6, <2>1
  <2>2. CASE i # 1 /\ j # 1
    BY <1>1, <1>3, <1>6, <2>2 DEF DistinctDocs, FileCount
  <2>. QED BY <2>1, <2>2
<1>. QED
  BY <1>2, <1>3, <1>4, <1>5, <1>6

\* Before the first file and after the last undo, the documents are the old ones.
LEMMA UntouchedFacts ==
  ASSUME DistinctDocs, TypeOK, NEW w \in Workers, Undoable(w), done[w] = 0, ~aside[w],
         OthersEvident(call[w]), TradeFiles
  PROVE  Quiet /\ \A f \in Files : content[f] # call[w]
<1>1. PICK l \in Labels \ {call[w]} : (l \in Trades => HasExecutedTrade(l)) /\ Batch(w, l)
  BY DEF Undoable
<1>2. call[w] \in Trades /\ Absent \notin Trades
  BY ConstantsAssumption DEF TypeOK
<1>3. \A i \in 1 .. FileCount : content[FileOf(call[w], i)] = Old(l, i)
  BY <1>1, FileCountType DEF Batch
<1>4. content[call[w]] = Absent
  BY <1>2, <1>3, FilesOfBatch, FileCountType DEF Old
<1>5. \A d \in Docs : content[d] = l
  BY <1>2, <1>3, FilesOfBatch DEF Old
<1>6. ASSUME NEW f \in Files, content[f] \in Trades PROVE HasExecutedTrade(content[f])
  <2>1. CASE f \in Docs
    BY <1>1, <1>5, <1>6, <2>1
  <2>2. CASE f \in Trades
    BY <1>2, <1>4, <1>6, <2>2 DEF OthersEvident, TradeFiles
  <2>. QED BY <2>1, <2>2 DEF Files
<1>7. \A f \in Files : content[f] # call[w]
  BY <1>1, <1>2, <1>4, <1>5 DEF TradeFiles, Files
<1>. QED
  BY <1>5, <1>6, <1>7 DEF Quiet

\* After the last file, they are those of the call.
LEMMA InstalledFacts ==
  ASSUME DistinctDocs, TypeOK, NEW w \in Workers, Undoable(w), done[w] = FileCount,
         OthersEvident(call[w])
  PROVE  /\ \A i \in 1 .. FileCount : content[FileOf(call[w], i)] = call[w]
         /\ HasExecutedTrade(call[w]) => Quiet
<1>1. PICK l \in Labels \ {call[w]} : Batch(w, l)
  BY DEF Undoable
<1>2. call[w] \in Trades
  BY DEF TypeOK
<1>3. \A i \in 1 .. FileCount : content[FileOf(call[w], i)] = call[w]
  BY <1>1, FileCountType DEF Batch
<1>4. \A d \in Docs : content[d] = call[w]
  BY <1>2, <1>3, FilesOfBatch
<1>. QED
  BY <1>2, <1>3, <1>4 DEF Quiet, OthersEvident

\* A trade without evidence is in no file of a quiet store.
LEMMA BeginFacts ==
  ASSUME DistinctDocs, TypeOK, TradeFiles, Quiet, NEW t \in Trades, ~HasExecutedTrade(t)
  PROVE  \E l \in Labels \ {t} :
           /\ l \in Trades => HasExecutedTrade(l)
           /\ \A i \in 1 .. FileCount : content[FileOf(t, i)] = Old(l, i)
<1>1. \A f \in Files : content[f] \in Labels /\ content[f] # t
  BY DEF TypeOK, Quiet
<1>2. content[t] = Absent
  BY <1>1 DEF TradeFiles, Files
<1>3. CASE Docs = {}
  <2>1. Absent \in Labels \ {t} /\ Absent \notin Trades
    BY ConstantsAssumption DEF Labels
  <2>2. \A i \in 1 .. FileCount : content[FileOf(t, i)] = Old(Absent, i)
    BY <1>2, <1>3, FilesOfBatch DEF Old
  <2>. QED BY <2>1, <2>2
<1>4. CASE Docs # {}
  <2>1. PICK d \in Docs : TRUE
    BY <1>4
  <2>2. content[d] \in Labels \ {t} /\ (content[d] \in Trades => HasExecutedTrade(content[d]))
    BY <1>1 DEF Quiet, Files
  <2>3. \A i \in 1 .. FileCount : content[FileOf(t, i)] = Old(content[d], i)
    BY <1>2, FilesOfBatch DEF Old, Quiet
  <2>. QED BY <2>2, <2>3
<1>. QED
  BY <1>3, <1>4

\* A call writes the artifacts of its own trade only.
LEMMA OwnArtifacts ==
  ASSUME TypeOK, NEW w \in Workers, Persist(w)
  PROVE  /\ call' = call /\ status' = status /\ todo' = todo
         /\ \A u \in Trades \ {call[w]} :
              /\ HasExecutedTrade(u)' = HasExecutedTrade(u)
              /\ CommitSurvives(u)' = CommitSurvives(u)
         /\ \A v \in Workers \ {w} :
              /\ pc'[v] = pc[v] /\ ok'[v] = ok[v] /\ done'[v] = done[v]
              /\ aside'[v] = aside[v]
<1>1. /\ call' = call /\ status' = status /\ todo' = todo
      /\ \A u \in Trades \ {call[w]} :
           /\ (u \in executed') = (u \in executed) /\ (u \in committed') = (u \in committed)
           /\ (u \in reserved') = (u \in reserved) /\ manifest'[u] = manifest[u]
  BY DEF Persist, Reserve, Prepare, Apply, MoveAside, Install, CommitPhase, Record, Mark,
         Tidy, RemoveManifest, Release, RollbackRemove, RollbackRestore, RollbackDone,
         SetManifest, TypeOK, disk, batch, process, worker
<1>2. \A v \in Workers \ {w} :
         pc'[v] = pc[v] /\ ok'[v] = ok[v] /\ done'[v] = done[v] /\ aside'[v] = aside[v]
  BY DEF Persist, Reserve, Prepare, Apply, MoveAside, Install, CommitPhase, Record, Mark,
         Tidy, RemoveManifest, Release, RollbackRemove, RollbackRestore, RollbackDone,
         Goto, TypeOK, disk, batch, process, worker
<1>. QED
  BY <1>1, <1>2 DEF HasExecutedTrade, CommitSurvives

-----------------------------------------------------------------------------
(***************************************************************************)
(* The steps of a call                                                     *)
(***************************************************************************)

\* What is left to show of a step after which the call still runs.
LEMMA StillBusy ==
  ASSUME TypeOK, BatchInv, NEW w \in Workers, status = "open", ~Idle(w), Persist(w),
         pc'[w] # "idle", Undoable(w)', OthersEvident(call[w])', Progress(w)', TradeFiles',
         CommitSurvives(call[w])' =>
           \A i \in 1 .. FileCount : content'[FileOf(call[w], i)] = call[w]
  PROVE  BatchInv'
<1>1. /\ call' = call /\ status' = "open"
      /\ \A u \in Trades \ {call[w]} : CommitSurvives(u)' = CommitSurvives(u)
      /\ \A v \in Workers \ {w} : /\ pc'[v] = pc[v] /\ ok'[v] = ok[v] /\ done'[v] = done[v]
                                  /\ aside'[v] = aside[v]
  BY OwnArtifacts
<1>2. \A v \in Workers \ {w} : Idle(v) /\ AtRest(v)
  BY DEF BatchInv, Alone, CallOK
<1>3. \A v \in Workers \ {w} : Idle(v)' /\ AtRest(v)'
  BY <1>1, <1>2 DEF Idle, AtRest
<1>4. Alone' /\ RestInv'
  BY <1>3 DEF Alone, Idle, RestInv
<1>5. CallOK(w)'
  BY <1>1 DEF CallOK, Idle
<1>6. \A v \in Workers : CallOK(v)'
  BY <1>3, <1>5 DEF CallOK
<1>7. ASSUME NEW u \in Trades, CommitSurvives(u)'
      PROVE  /\ \A i \in 1 .. FileCount : content'[FileOf(u, i)] = u
             /\ \E v \in Workers : ~Idle(v)' /\ call'[v] = u
  <2>1. CASE u = call[w]
    BY <1>1, <1>7, <2>1 DEF Idle
  <2>2. CASE u # call[w]
    <3>1. CommitSurvives(u)
      BY <1>1, <1>7, <2>2
    <3>. QED BY <1>2, <2>2, <3>1 DEF BatchInv, CommitInv
  <2>. QED BY <2>1, <2>2
<1>8. CommitInv'
  BY <1>1, <1>7 DEF CommitInv
<1>. QED
  BY <1>4, <1>6, <1>8 DEF BatchInv

\* What a running call has of its own.
LEMMA BusyFacts ==
  ASSUME TypeOK, BatchInv, NEW w \in Workers, ~Idle(w)
  PROVE  /\ Undoable(w) /\ OthersEvident(call[w]) /\ Progress(w) /\ TradeFiles
         /\ call[w] \in Trades /\ status = "open"
  BY DEF BatchInv, CallOK, TypeOK

\* A step that touches neither the files nor the batch.
LEMMA RecordsOnly ==
  ASSUME DistinctDocs, TypeOK, BatchInv, NEW w \in Workers, ~Idle(w), Persist(w),
         UNCHANGED <<content, batch>>, pc'[w] # "idle", Progress(w)',
         CommitSurvives(call[w])' => done[w] = FileCount
  PROVE  BatchInv'
<1>. USE BusyFacts
<1>1. /\ call' = call
      /\ \A u \in Trades \ {call[w]} : HasExecutedTrade(u)' = HasExecutedTrade(u)
  BY OwnArtifacts
<1>2. Undoable(w)'
  <2>1. PICK l \in Labels \ {call[w]} : (l \in Trades => HasExecutedTrade(l)) /\ Batch(w, l)
    BY DEF Undoable
  <2>2. Batch(w, l)'
    BY <1>1, <2>1 DEF Batch, batch
  <2>3. l \in Trades => HasExecutedTrade(l)'
    BY <1>1, <2>1
  <2>. QED BY <1>1, <2>2, <2>3 DEF Undoable
<1>3. OthersEvident(call[w])'
  BY <1>1 DEF OthersEvident
<1>4. TradeFiles'
  BY DEF TradeFiles
<1>5. CommitSurvives(call[w])' =>
        \A i \in 1 .. FileCount : content'[FileOf(call[w], i)] = call[w]
  BY InstalledFacts
<1>. QED
  BY <1>2, <1>3, <1>4, <1>5, StillBusy

\* moveExistingAside, and the removal of an installed file, both leave a file
\* that is absent and has its backup.
LEMMA AbsentFile ==
  ASSUME DistinctDocs, TypeOK, BatchInv, NEW w \in Workers, ~Idle(w), Persist(w),
         NEW i \in 1 .. FileCount, done'[w] \in Nat, done'[w] + 1 = i, aside'[w],
         content' = [content EXCEPT ![FileOf(call[w], i)] = Absent],
         \/ /\ done' = done /\ ~aside[w]
            /\ saved' = [saved EXCEPT ![w][i] = content[FileOf(call[w], i)]]
         \/ done[w] = i /\ ~aside[w] /\ saved' = saved
  PROVE  Undoable(w)' /\ OthersEvident(call[w])' /\ TradeFiles'
<1>. USE BusyFacts
<1>1. /\ call' = call /\ FileCount \in Nat /\ done[w] \in Nat
      /\ \A u \in Trades \ {call[w]} : HasExecutedTrade(u)' = HasExecutedTrade(u)
  BY OwnArtifacts, FileCountType DEF TypeOK
<1>2. /\ FileOf(call[w], i) \in Files
      /\ content'[FileOf(call[w], i)] = Absent
      /\ \A f \in Files : f # FileOf(call[w], i) => content'[f] = content[f]
  BY FileOfType DEF TypeOK
<1>3. \A j \in 1 .. FileCount : j # i => content'[FileOf(call[w], j)] = content[FileOf(call[w], j)]
  BY <1>2, FilesOfBatch, FileOfType
<1>4. PICK l \in Labels \ {call[w]} : (l \in Trades => HasExecutedTrade(l)) /\ Batch(w, l)
  BY DEF Undoable
<1>5. saved'[w][i] = Old(l, i)
  BY <1>1, <1>4 DEF Batch, TypeOK
<1>6. \A j \in 1 .. FileCount : j < i => saved'[w][j] = saved[w][j] /\ j <= done[w]
  BY <1>1 DEF TypeOK
<1>7. Batch(w, l)'
  <2>1. ASSUME NEW j \in 1 .. FileCount
        PROVE  IF j <= done'[w]
               THEN saved'[w][j] = Old(l, j) /\ content'[FileOf(call'[w], j)] = call'[w]
               ELSE IF j = done'[w] + 1 /\ aside'[w]
                    THEN saved'[w][j] = Old(l, j) /\ content'[FileOf(call'[w], j)] = Absent
                    ELSE content'[FileOf(call'[w], j)] = Old(l, j)
    <3>1. CASE j < i
      BY <1>1, <1>3, <1>4, <1>6, <3>1 DEF Batch
    <3>2. CASE j = i
      BY <1>1, <1>2, <1>5, <3>2
    <3>3. CASE j > i
      <4>1. content[FileOf(call[w], j)] = Old(l, j)
        BY <1>1, <1>4, <3>3 DEF Batch
      <4>. QED BY <1>1, <1>3, <3>3, <4>1
    <3>. QED BY <3>1, <3>2, <3>3
  <2>. QED BY <2>1 DEF Batch
<1>8. Undoable(w)'
  BY <1>1, <1>4, <1>7 DEF Undoable
<1>9. \A f \in Files : content'[f] = content[f] \/ content'[f] = Absent
  BY <1>2
<1>10. OthersEvident(call[w])' /\ TradeFiles'
  BY <1>1, <1>9, ConstantsAssumption DEF OthersEvident, TradeFiles, Files
<1>. QED
  BY <1>8, <1>10

LEMMA MoveAsideBatch ==
  ASSUME DistinctDocs, TypeOK, BatchInv, NEW w \in Workers, MoveAside(w)
  PROVE  BatchInv'
<1>1. /\ ~Idle(w) /\ pc[w] = "install" /\ Persist(w) /\ status = "open"
      /\ Progress(w) /\ call' = call
  BY BusyFacts DEF MoveAside, At, Idle, Persist
<1>2. CASE pc' = pc
  <2>1. /\ done[w] + 1 \in 1 .. FileCount /\ NextFile(w) = FileOf(call[w], done[w] + 1)
    BY NextFileType DEF MoveAside, NextFile
  <2>2. /\ saved' = [saved EXCEPT ![w][done[w] + 1] = content[FileOf(call[w], done[w] + 1)]]
        /\ content' = [content EXCEPT ![FileOf(call[w], done[w] + 1)] = Absent]
        /\ aside'[w] /\ ~aside[w] /\ done' = done /\ done'[w] \in Nat
    BY <1>1, <1>2, <2>1 DEF MoveAside, At, Goto, TypeOK
  <2>3. Undoable(w)' /\ OthersEvident(call[w])' /\ TradeFiles'
    BY <1>1, <2>1, <2>2, AbsentFile
  <2>4. Progress(w)' /\ ~CommitSurvives(call[w])'
    BY <1>1, <1>2 DEF MoveAside, Progress, Unmarked, CommitSurvives
  <2>. QED BY <1>1, <1>2, <2>3, <2>4, StillBusy
<1>3. CASE pc' # pc
  <2>1. /\ UNCHANGED <<content, batch>> /\ pc'[w] = "rollback"
    BY <1>1, <1>3 DEF MoveAside, Goto, batch, TypeOK
  <2>2. Progress(w)' /\ ~CommitSurvives(call[w])'
    BY <1>1, <2>1 DEF MoveAside, Progress, Unmarked, CommitSurvives
  <2>. QED BY <1>1, <2>1, <2>2, RecordsOnly
<1>. QED
  BY <1>2, <1>3

LEMMA InstallBatch ==
  ASSUME DistinctDocs, TypeOK, BatchInv, NEW w \in Workers, Install(w)
  PROVE  BatchInv'
<1>1. /\ ~Idle(w) /\ pc[w] = "install" /\ Persist(w) /\ status = "open"
      /\ Progress(w) /\ call' = call /\ Undoable(w) /\ OthersEvident(call[w])
      /\ TradeFiles /\ call[w] \in Trades
      /\ \A u \in Trades \ {call[w]} : HasExecutedTrade(u)' = HasExecutedTrade(u)
  BY BusyFacts, OwnArtifacts DEF Install, At, Idle, Persist
<1>2. CASE pc' = pc
  <2>. DEFINE i == done[w] + 1
  <2>1. /\ i \in 1 .. FileCount /\ NextFile(w) = FileOf(call[w], i) /\ FileOf(call[w], i) \in Files
        /\ done[w] \in Nat /\ FileCount \in Nat
    BY NextFileType, FileCountType DEF Install, NextFile, TypeOK
  <2>2. /\ content' = [content EXCEPT ![FileOf(call[w], i)] = call[w]]
        /\ aside[w] /\ ~aside'[w] /\ done'[w] = i /\ saved' = saved
    BY <1>1, <1>2, <2>1 DEF Install, At, Goto, TypeOK
  <2>. HIDE DEF i
  <2>3. /\ content'[FileOf(call[w], i)] = call[w]
        /\ \A f \in Files : f # FileOf(call[w], i) => content'[f] = content[f]
    BY <2>1, <2>2 DEF TypeOK
  <2>4. \A j \in 1 .. FileCount : j # i => content'[FileOf(call[w], j)] = content[FileOf(call[w], j)]
    BY <1>1, <2>1, <2>3, FilesOfBatch, FileOfType
  <2>5. PICK l \in Labels \ {call[w]} : (l \in Trades => HasExecutedTrade(l)) /\ Batch(w, l)
    BY <1>1 DEF Undoable
  <2>6. ASSUME NEW j \in 1 .. FileCount
        PROVE  IF j <= i
               THEN saved[w][j] = Old(l, j) /\ content'[FileOf(call[w], j)] = call[w]
               ELSE content'[FileOf(call[w], j)] = Old(l, j)
    <3>1. CASE j < i
      BY <2>1, <2>4, <2>5, <3>1 DEF Batch, i
    <3>2. CASE j = i
      <4>1. saved[w][i] = Old(l, i)
        BY <2>1, <2>2, <2>5 DEF Batch, i
      <4>. QED BY <2>1, <2>3, <3>2, <4>1
    <3>3. CASE j > i
      <4>1. content[FileOf(call[w], j)] = Old(l, j)
        BY <2>1, <2>5, <3>3 DEF Batch, i
      <4>. QED BY <2>1, <2>4, <3>3, <4>1
    <3>. QED BY <2>1, <3>1, <3>2, <3>3
  <2>7. Batch(w, l)'
    BY <1>1, <2>1, <2>2, <2>6 DEF Batch
  <2>8. Undoable(w)'
    BY <1>1, <2>5, <2>7 DEF Undoable
  <2>9. OthersEvident(call[w])'
    BY <1>1, <2>3 DEF OthersEvident
  <2>10. TradeFiles'
    BY <1>1, <2>1, <2>3, FilesOfBatch DEF TradeFiles, Files
  <2>11. Progress(w)' /\ ~CommitSurvives(call[w])'
    BY <1>1, <1>2 DEF Install, Progress, Unmarked, CommitSurvives
  <2>. QED BY <1>1, <1>2, <2>8, <2>9, <2>10, <2>11, StillBusy
<1>3. CASE pc' # pc
  <2>1. /\ UNCHANGED <<content, batch>> /\ pc'[w] = "rollback"
    BY <1>1, <1>3 DEF Install, Goto, batch, TypeOK
  <2>2. Progress(w)' /\ ~CommitSurvives(call[w])'
    BY <1>1, <2>1 DEF Install, Progress, Unmarked, CommitSurvives
  <2>. QED BY <1>1, <2>1, <2>2, RecordsOnly
<1>. QED
  BY <1>2, <1>3

LEMMA RollbackRemoveBatch ==
  ASSUME Recoverable, DistinctDocs, TypeOK, BatchInv, NEW w \in Workers, RollbackRemove(w)
  PROVE  BatchInv'
<1>1. /\ ~Idle(w) /\ pc[w] = "rollback" /\ Persist(w) /\ status = "open"
      /\ Progress(w) /\ call' = call /\ UNCHANGED worker
  BY BusyFacts DEF RollbackRemove, At, Idle, Persist, worker
<1>2. /\ done[w] \in 1 .. FileCount /\ done'[w] = done[w] - 1 /\ done'[w] \in Nat
      /\ done'[w] + 1 = done[w] /\ aside'[w] /\ ~aside[w] /\ saved' = saved
      /\ content' = [content EXCEPT ![FileOf(call[w], done[w])] = Absent]
  BY FileCountType
  DEF RollbackRemove, RemoveInstalled, Fault, Recoverable, TypeOK
<1>3. Undoable(w)' /\ OthersEvident(call[w])' /\ TradeFiles'
  BY <1>1, <1>2, AbsentFile
<1>4. Progress(w)' /\ ~CommitSurvives(call[w])'
  BY <1>1 DEF RollbackRemove, Progress, Unmarked, CommitSurvives, worker
<1>. QED
  BY <1>1, <1>3, <1>4, StillBusy DEF worker

LEMMA RollbackRestoreBatch ==
  ASSUME Recoverable, DistinctDocs, TypeOK, BatchInv, NEW w \in Workers, RollbackRestore(w)
  PROVE  BatchInv'
<1>. DEFINE i == done[w] + 1
<1>1. /\ ~Idle(w) /\ pc[w] = "rollback" /\ Persist(w) /\ status = "open"
      /\ Progress(w) /\ call' = call /\ UNCHANGED worker /\ Undoable(w)
      /\ OthersEvident(call[w]) /\ TradeFiles /\ call[w] \in Trades
      /\ \A u \in Trades \ {call[w]} : HasExecutedTrade(u)' = HasExecutedTrade(u)
  BY BusyFacts, OwnArtifacts DEF RollbackRestore, At, Idle, Persist, worker
<1>2. /\ i \in 1 .. FileCount /\ FileOf(call[w], i) \in Files
      /\ NextFile(w) = FileOf(call[w], i) /\ done[w] \in Nat /\ FileCount \in Nat
  BY NextFileType, FileCountType DEF RollbackRestore, NextFile, TypeOK
<1>3. PICK l \in Labels \ {call[w]} : (l \in Trades => HasExecutedTrade(l)) /\ Batch(w, l)
  BY <1>1 DEF Undoable
<1>4. /\ aside[w] /\ ~aside'[w] /\ done' = done /\ saved' = saved
      /\ content' = IF saved[w][i] = Absent THEN content
                    ELSE [content EXCEPT ![FileOf(call[w], i)] = saved[w][i]]
  BY <1>2 DEF RollbackRestore, Fault, Recoverable, TypeOK
<1>. HIDE DEF i
<1>5. saved[w][i] = Old(l, i) /\ content[FileOf(call[w], i)] = Absent
  BY <1>2, <1>3, <1>4 DEF Batch, i
<1>6. /\ content'[FileOf(call[w], i)] = Old(l, i)
      /\ \A f \in Files : f # FileOf(call[w], i) => content'[f] = content[f]
  BY <1>2, <1>4, <1>5 DEF TypeOK
<1>7. \A j \in 1 .. FileCount : j # i => content'[FileOf(call[w], j)] = content[FileOf(call[w], j)]
  BY <1>1, <1>2, <1>6, FilesOfBatch, FileOfType
<1>8. ASSUME NEW j \in 1 .. FileCount
      PROVE  IF j <= done[w]
             THEN saved[w][j] = Old(l, j) /\ content'[FileOf(call[w], j)] = call[w]
             ELSE content'[FileOf(call[w], j)] = Old(l, j)
  <2>1. CASE j = i
    BY <1>2, <1>6, <2>1 DEF i
  <2>2. CASE j # i
    BY <1>2, <1>3, <1>7, <2>2 DEF Batch, i
  <2>. QED BY <2>1, <2>2
<1>9. Batch(w, l)'
  BY <1>1, <1>4, <1>8 DEF Batch
<1>10. Undoable(w)'
  BY <1>1, <1>3, <1>9 DEF Undoable
<1>11. OthersEvident(call[w])'
  BY <1>1, <1>3, <1>6, ConstantsAssumption DEF OthersEvident, Old
<1>12. TradeFiles'
  <2>1. ASSUME NEW t \in Trades PROVE content'[t] \in {t, Absent}
    <3>1. CASE t = FileOf(call[w], i)
      <4>1. i = 1
        BY <1>1, <1>2, <3>1, FilesOfBatch, ConstantsAssumption
      <4>. QED BY <1>6, <3>1, <4>1 DEF Old
    <3>2. CASE t # FileOf(call[w], i)
      BY <1>1, <1>6, <3>2 DEF TradeFiles, Files
    <3>. QED BY <3>1, <3>2
  <2>. QED BY <2>1 DEF TradeFiles
<1>13. Progress(w)' /\ ~CommitSurvives(call[w])'
  BY <1>1 DEF RollbackRestore, Progress, Unmarked, CommitSurvives, worker
<1>. QED
  BY <1>1, <1>10, <1>11, <1>12, <1>13, StillBusy DEF worker

\* The last step of a call: the store is quiet again.
LEMMA CallReturns ==
  ASSUME DistinctDocs, TypeOK, BatchInv, NEW w \in Workers, ~Idle(w), Persist(w),
         pc'[w] = "idle", content' = content, AtRest(w)', ~CommitSurvives(call[w])',
         \/ done[w] = FileCount /\ call[w] \in executed /\ executed' = executed
         \/ done[w] = 0 /\ ~aside[w]
  PROVE  BatchInv'
<1>. USE BusyFacts
<1>1. /\ call' = call /\ status' = "open"
      /\ \A u \in Trades \ {call[w]} : /\ HasExecutedTrade(u)' = HasExecutedTrade(u)
                                       /\ CommitSurvives(u)' = CommitSurvives(u)
      /\ \A v \in Workers \ {w} : /\ pc'[v] = pc[v] /\ ok'[v] = ok[v] /\ done'[v] = done[v]
                                  /\ aside'[v] = aside[v]
  BY OwnArtifacts
<1>2. \A v \in Workers \ {w} : Idle(v) /\ AtRest(v)
  BY DEF BatchInv, Alone, CallOK
<1>3. \A v \in Workers : Idle(v)' /\ AtRest(v)'
  BY <1>1, <1>2 DEF Idle, AtRest
<1>4. Quiet'
  <2>1. CASE done[w] = FileCount /\ call[w] \in executed /\ executed' = executed
    <3>1. HasExecutedTrade(call[w])
      BY <2>1 DEF HasExecutedTrade
    <3>2. Quiet
      BY <2>1, <3>1, InstalledFacts
    <3>3. \A u \in Trades : HasExecutedTrade(u) => HasExecutedTrade(u)'
      BY <1>1, <2>1 DEF HasExecutedTrade
    <3>. QED BY <3>2, <3>3 DEF Quiet
  <2>2. CASE done[w] = 0 /\ ~aside[w]
    <3>1. Quiet /\ \A f \in Files : content[f] # call[w]
      BY <2>2, UntouchedFacts
    <3>. QED BY <1>1, <3>1 DEF Quiet
  <2>. QED BY <2>1, <2>2
<1>5. ASSUME NEW u \in Trades PROVE ~CommitSurvives(u)'
  BY <1>1, <1>2 DEF BatchInv, CommitInv
<1>. QED
  BY <1>3, <1>4, <1>5 DEF BatchInv, Alone, RestInv, CommitInv, CallOK, TradeFiles

LEMMA ReserveBatch ==
  ASSUME DistinctDocs, TypeOK, BatchInv, NEW w \in Workers, Reserve(w)
  PROVE  BatchInv'
<1>1. /\ ~Idle(w) /\ pc[w] = "reserve" /\ Persist(w) /\ Progress(w) /\ call' = call
      /\ UNCHANGED <<content, batch, ok, executed, committed, manifest>>
  BY BusyFacts DEF Reserve, At, Idle, Persist
<1>2. /\ AtRest(w)' /\ AtRest(w) /\ ~CommitSurvives(call[w])'
      /\ Unmarked(call[w])' /\ manifest'[call[w]] \in {"absent", "preparing"}
  BY <1>1 DEF Progress, AtRest, Unmarked, CommitSurvives, batch
<1>3. CASE pc'[w] = "prepare"
  BY <1>1, <1>2, <1>3, RecordsOnly DEF Progress
<1>4. CASE pc'[w] = "idle"
  BY <1>1, <1>2, <1>4, CallReturns DEF AtRest
<1>. QED
  BY <1>3, <1>4 DEF Reserve, Goto, TypeOK

LEMMA PrepareBatch ==
  ASSUME DistinctDocs, TypeOK, BatchInv, NEW w \in Workers, Prepare(w) \/ Apply(w)
  PROVE  BatchInv'
<1>1. /\ ~Idle(w) /\ pc[w] \in {"prepare", "apply"} /\ Persist(w) /\ Progress(w)
      /\ call' = call /\ UNCHANGED <<content, batch, ok, executed, committed>>
      /\ call[w] \in Trades
  BY BusyFacts DEF Prepare, Apply, At, Idle, Persist
<1>2. /\ AtRest(w)' /\ Unmarked(call[w])'
      /\ \/ pc'[w] = "apply" /\ manifest'[call[w]] = "preparing"
         \/ pc'[w] = "install" /\ manifest'[call[w]] = "applying"
         \/ /\ pc'[w] \in {"release", "unmanifest"}
            /\ manifest'[call[w]] \in {"absent", "preparing"}
  BY <1>1
  DEF Prepare, Apply, SetManifest, Goto, Progress, AtRest, Unmarked, batch, TypeOK
<1>3. Progress(w)' /\ pc'[w] # "idle" /\ ~CommitSurvives(call[w])'
  BY <1>1, <1>2 DEF Progress, AtRest, Unmarked, CommitSurvives, PendingOrApplying
<1>. QED
  BY <1>1, <1>3, RecordsOnly

LEMMA CommitBatch ==
  ASSUME Recoverable, DistinctDocs, TypeOK, BatchInv, NEW w \in Workers,
         CommitPhase(w) \/ Record(w) \/ Mark(w)
  PROVE  BatchInv'
<1>1. /\ ~Idle(w) /\ pc[w] \in {"install", "record", "mark"} /\ Persist(w) /\ Progress(w)
      /\ call' = call /\ UNCHANGED <<content, batch>> /\ call[w] \in Trades
  BY BusyFacts DEF CommitPhase, Record, Mark, At, Idle, Persist
<1>2. CASE CommitPhase(w)
  <2>1. /\ done[w] = FileCount /\ ~aside[w] /\ UNCHANGED <<ok, executed, committed>>
        /\ \/ pc'[w] = "record" /\ manifest'[call[w]] = "committed"
           \/ pc'[w] = "rollback" /\ manifest' = manifest
    BY <1>1, <1>2 DEF CommitPhase, AllInstalled, SetManifest, Goto, At, TypeOK
  <2>2. Progress(w)' /\ pc'[w] # "idle"
    BY <1>1, <1>2, <2>1 DEF CommitPhase, At, Progress, AtRest, Unmarked, batch
  <2>. QED BY <1>1, <2>1, <2>2, RecordsOnly
<1>3. CASE Record(w)
  <2>1. /\ done[w] = FileCount /\ UNCHANGED <<ok, executed, manifest>>
        /\ pc'[w] = "mark"
    BY <1>1, <1>3
    DEF Record, Goto, At, Progress, Unmarked, Taken, Fault, Recoverable, TypeOK
  <2>2. Progress(w)' /\ pc'[w] # "idle"
    BY <1>1, <1>3, <2>1 DEF Record, At, Progress, AtRest, Unmarked, batch
  <2>. QED BY <1>1, <2>1, <2>2, RecordsOnly
<1>4. CASE Mark(w)
  <2>1. /\ done[w] = FileCount /\ call[w] \in executed' /\ ok'[w] /\ pc'[w] = "tidy"
    BY <1>1, <1>4 DEF Mark, Goto, At, Progress, Taken, Fault, Recoverable, TypeOK
  <2>2. Progress(w)' /\ pc'[w] # "idle"
    BY <1>1, <1>4, <2>1 DEF Mark, At, Progress, AtRest, Unmarked, batch
  <2>. QED BY <1>1, <2>1, <2>2, RecordsOnly
<1>. QED
  BY <1>2, <1>3, <1>4

LEMMA EndBatch ==
  ASSUME Recoverable, DistinctDocs, TypeOK, BatchInv, NEW w \in Workers,
         Tidy(w) \/ RollbackDone(w) \/ RemoveManifest(w)
  PROVE  BatchInv'
<1>1. /\ ~Idle(w) /\ pc[w] \in {"tidy", "rollback", "unmanifest"} /\ Persist(w)
      /\ Progress(w) /\ call' = call /\ UNCHANGED <<content, batch, ok, executed>>
      /\ call[w] \in Trades /\ pc'[w] \in {"unmanifest", "release"}
  BY BusyFacts
  DEF Tidy, RollbackDone, RemoveManifest, At, Idle, Persist, Goto, TypeOK, batch, disk
<1>2. CASE ok[w]
  <2>1. done[w] = FileCount /\ ~aside[w] /\ call[w] \in executed
    BY <1>1, <1>2 DEF Progress, AtRest
  <2>2. Progress(w)' /\ ~CommitSurvives(call[w])'
    BY <1>1, <1>2, <2>1 DEF Progress, AtRest, CommitSurvives, batch
  <2>. QED BY <1>1, <2>2, RecordsOnly
<1>3. CASE ~ok[w]
  <2>1. /\ AtRest(w)' /\ Unmarked(call[w])' /\ manifest'[call[w]] \in PendingOrApplying
    BY <1>1, <1>3
    DEF Tidy, RollbackDone, RemoveManifest, At, Progress, AtRest, Unmarked, SetManifest,
        PendingOrApplying, batch, disk, TypeOK
  <2>2. Progress(w)' /\ ~CommitSurvives(call[w])'
    BY <1>1, <2>1 DEF Progress, AtRest, Unmarked, CommitSurvives, PendingOrApplying
  <2>. QED BY <1>1, <2>2, RecordsOnly
<1>. QED
  BY <1>2, <1>3

LEMMA ReleaseBatch ==
  ASSUME DistinctDocs, TypeOK, BatchInv, NEW w \in Workers, Release(w)
  PROVE  BatchInv'
<1>1. /\ ~Idle(w) /\ pc[w] = "release" /\ Persist(w) /\ Progress(w) /\ call' = call
      /\ UNCHANGED <<content, executed, committed, manifest>>
      /\ pc'[w] = "idle" /\ AtRest(w)'
  BY BusyFacts DEF Release, At, Idle, Persist, Goto, TypeOK, AtRest
<1>2. \/ done[w] = FileCount /\ call[w] \in executed
      \/ /\ done[w] = 0 /\ ~aside[w] /\ Unmarked(call[w])
         /\ manifest[call[w]] \in PendingOrApplying
  BY <1>1 DEF Progress, AtRest
<1>3. ~CommitSurvives(call[w])'
  BY <1>1, <1>2 DEF CommitSurvives, Unmarked, PendingOrApplying
<1>. QED
  BY <1>1, <1>2, <1>3, CallReturns

-----------------------------------------------------------------------------
(***************************************************************************)
(* The first step of a call, crashes and recovery                          *)
(***************************************************************************)
LEMMA BeginBatch ==
  ASSUME Recoverable, DistinctDocs, TypeOK, BatchInv, NEW w \in Workers, NEW t \in Trades,
         Begin(w, t)
  PROVE  BatchInv'
<1>1. /\ status = "open" /\ \A v \in Workers : Idle(v) /\ AtRest(v)
      /\ ~HasExecutedTrade(t) /\ TradeFiles /\ Quiet /\ CommitInv
  BY DEF Begin, At, Recoverable, BatchInv, RestInv, Stuck, CallOK, Idle
<1>2. /\ UNCHANGED <<disk, process, batch, ok>> /\ pc' = [pc EXCEPT ![w] = "reserve"]
      /\ call' = [call EXCEPT ![w] = t]
  BY DEF Begin, Goto
<1>3. /\ call'[w] = t /\ pc'[w] = "reserve" /\ AtRest(w)'
      /\ \A v \in Workers \ {w} : Idle(v)' /\ AtRest(v)'
  BY <1>1, <1>2 DEF TypeOK, Idle, AtRest, batch
<1>4. \A u \in Trades : HasExecutedTrade(u)' = HasExecutedTrade(u)
  BY <1>2 DEF HasExecutedTrade, disk
<1>5. Undoable(w)'
  <2>1. PICK l \in Labels \ {t} :
          /\ l \in Trades => HasExecutedTrade(l)
          /\ \A i \in 1 .. FileCount : content[FileOf(t, i)] = Old(l, i)
    BY <1>1, BeginFacts
  <2>2. Batch(w, l)'
    BY <1>2, <1>3, <2>1 DEF Batch, AtRest, disk
  <2>3. l \in Trades => HasExecutedTrade(l)'
    BY <1>4, <2>1
  <2>. QED BY <1>3, <2>2, <2>3 DEF Undoable
<1>6. OthersEvident(call[w])' /\ TradeFiles'
  BY <1>1, <1>2, <1>4 DEF OthersEvident, TradeFiles, Quiet, disk
<1>7. Progress(w)'
  BY <1>1, <1>2, <1>3 DEF Progress, Unmarked, HasExecutedTrade, disk
<1>8. Alone' /\ RestInv'
  BY <1>3 DEF Alone, RestInv, Idle
<1>9. \A v \in Workers : CallOK(v)'
  BY <1>1, <1>2, <1>3, <1>5, <1>6, <1>7 DEF CallOK, Idle, process
<1>10. CommitInv'
  BY <1>1, <1>2 DEF CommitInv, CommitSurvives, disk, process
<1>. QED
  BY <1>6, <1>8, <1>9, <1>10 DEF BatchInv

LEMMA CrashBatch ==
  ASSUME DistinctDocs, TypeOK, BatchInv, Crash
  PROVE  BatchInv'
<1>1. /\ UNCHANGED disk /\ status' = "down"
      /\ \A w \in Workers : Idle(w)' /\ AtRest(w)'
  BY DEF Crash, Idle, AtRest
<1>2. Quiet \/ Stuck \/ \E t \in Trades : Unmarked(t) /\ manifest[t] = "applying"
  <2>1. ASSUME NEW w \in Workers, ~Idle(w)
        PROVE  Quiet \/ \E t \in Trades : Unmarked(t) /\ manifest[t] = "applying"
    <3>1. /\ Undoable(w) /\ OthersEvident(call[w]) /\ Progress(w) /\ TradeFiles
          /\ call[w] \in Trades
      BY <2>1, BusyFacts
    <3>2. CASE pc[w] \in {"reserve", "prepare", "apply"}
      BY <3>1, <3>2, UntouchedFacts DEF Progress, AtRest
    <3>3. CASE pc[w] \in {"install", "rollback"}
      BY <3>1, <3>3 DEF Progress
    <3>4. CASE pc[w] \in {"record", "mark", "tidy"}
      <4>1. done[w] = FileCount /\ HasExecutedTrade(call[w])
        BY <3>1, <3>4 DEF Progress, HasExecutedTrade
      <4>. QED BY <3>1, <4>1, InstalledFacts
    <3>5. CASE pc[w] \in {"unmanifest", "release"}
      <4>1. CASE ok[w]
        <5>1. done[w] = FileCount /\ HasExecutedTrade(call[w])
          BY <3>1, <3>5, <4>1 DEF Progress, AtRest, HasExecutedTrade
        <5>. QED BY <3>1, <5>1, InstalledFacts
      <4>2. CASE ~ok[w]
        BY <3>1, <3>5, <4>2, UntouchedFacts DEF Progress, AtRest
      <4>. QED BY <4>1, <4>2
    <3>6. pc[w] \in Steps \ {"idle"}
      BY <2>1 DEF TypeOK, Idle
    <3>. QED BY <3>2, <3>3, <3>4, <3>5, <3>6 DEF Steps
  <2>. QED BY <2>1 DEF BatchInv, RestInv
<1>3. RestInv'
  <2>1. Quiet => Quiet'
    BY <1>1 DEF Quiet, HasExecutedTrade, disk
  <2>2. (Stuck \/ \E t \in Trades : Unmarked(t) /\ manifest[t] = "applying") => Stuck'
    BY <1>1 DEF Stuck, Unmarked, disk
  <2>. QED BY <1>2, <2>1, <2>2 DEF RestInv
<1>4. CommitInv' /\ TradeFiles'
  BY <1>1 DEF BatchInv, CommitInv, CommitSurvives, TradeFiles, disk
<1>. QED
  BY <1>1, <1>3, <1>4 DEF BatchInv, Alone, CallOK

\* Recovery changes no file, and forgets no evidence.
LEMMA RecoveryStep ==
  ASSUME BatchInv, UNCHANGED <<content, worker, batch>>, status # "open",
         \A u \in Trades : HasExecutedTrade(u) => HasExecutedTrade(u)',
         status' = "open" => Quiet /\ \A u \in Trades : ~CommitSurvives(u)',
         Stuck => status' = "open" \/ Stuck',
         \A u \in Trades : CommitSurvives(u)' =>
           CommitSurvives(u) /\ (status' = "recovering" => u \in todo')
  PROVE  BatchInv'
<1>1. \A w \in Workers : Idle(w) /\ AtRest(w)
  BY DEF BatchInv, CallOK
<1>2. \A w \in Workers : Idle(w)' /\ AtRest(w)'
  BY <1>1 DEF Idle, AtRest, worker, batch
<1>3. Quiet => Quiet'
  BY DEF Quiet
<1>4. RestInv'
  BY <1>1, <1>3 DEF BatchInv, RestInv
<1>5. CommitInv' /\ TradeFiles'
  BY DEF BatchInv, CommitInv, TradeFiles
<1>. QED
  BY <1>2, <1>4, <1>5 DEF BatchInv, Alone, CallOK

LEMMA RecoverBatch ==
  ASSUME TypeOK, BatchInv, Open \/ Recover
  PROVE  BatchInv'
<1>0. /\ RestInv /\ CommitInv /\ \A w \in Workers : ~Idle(w) => status = "open"
  BY DEF BatchInv, CallOK
<1>1. CASE Open
  <2>1. /\ status # "open" /\ status' = "recovering" /\ UNCHANGED <<disk, worker, batch>>
        /\ todo' = {t \in Trades : HasArtifact(t)}
    BY <1>1 DEF Open
  <2>2. \A u \in Trades : HasExecutedTrade(u) => HasExecutedTrade(u)'
    BY <2>1 DEF HasExecutedTrade, disk
  <2>3. Stuck => Stuck'
    BY <2>1 DEF Stuck, Unmarked, HasArtifact, disk
  <2>4. \A u \in Trades : CommitSurvives(u)' => CommitSurvives(u) /\ u \in todo'
    BY <2>1 DEF CommitSurvives, HasArtifact, disk
  <2>. QED BY <2>1, <2>2, <2>3, <2>4, RecoveryStep DEF disk
<1>2. ASSUME NEW t \in Trades, RecoverExecuted(t) PROVE BatchInv'
  <2>1. /\ status = "recovering" /\ status' = status /\ UNCHANGED <<content, worker, batch>>
        /\ t \in executed /\ executed' = executed /\ committed' = committed \ {t}
        /\ reserved' = reserved \ {t} /\ manifest' = [manifest EXCEPT ![t] = "absent"]
        /\ todo' = todo \ {t}
    BY <1>2 DEF RecoverExecuted, NextEntry
  <2>2. \A u \in Trades : HasExecutedTrade(u) => HasExecutedTrade(u)'
    BY <2>1 DEF HasExecutedTrade, TypeOK
  <2>3. Stuck => Stuck'
    BY <2>1 DEF Stuck, Unmarked, TypeOK
  <2>4. \A u \in Trades : CommitSurvives(u)' => CommitSurvives(u) /\ u \in todo'
    BY <1>0, <2>1 DEF CommitInv, CommitSurvives, TypeOK
  <2>. QED BY <2>1, <2>2, <2>3, <2>4, RecoveryStep
<1>3. ASSUME NEW t \in Trades, RecoverCommitted(t) PROVE BatchInv'
  <2>1. /\ status = "recovering" /\ status' = status /\ todo' = todo
        /\ UNCHANGED <<content, worker, batch, committed, reserved, manifest>>
        /\ CommitSurvives(t) /\ executed' = executed \cup {t}
    BY <1>3 DEF RecoverCommitted, process
  <2>2. \A u \in Trades : HasExecutedTrade(u) => HasExecutedTrade(u)'
    BY <2>1 DEF HasExecutedTrade
  <2>3. Stuck => Stuck'
    BY <2>1 DEF Stuck, Unmarked, CommitSurvives
  <2>4. \A u \in Trades : CommitSurvives(u)' => CommitSurvives(u) /\ u \in todo'
    BY <1>0, <2>1 DEF CommitInv, CommitSurvives
  <2>. QED BY <2>1, <2>2, <2>3, <2>4, RecoveryStep
<1>4. ASSUME NEW t \in Trades, RecoverPending(t) PROVE BatchInv'
  <2>1. /\ status = "recovering" /\ status' = status /\ todo' = todo \ {t}
        /\ UNCHANGED <<disk, worker, batch>>
        /\ ~CommitSurvives(t) /\ manifest[t] \in PendingPhases
    BY <1>4 DEF RecoverPending, NextEntry
  <2>2. \A u \in Trades : HasExecutedTrade(u) => HasExecutedTrade(u)'
    BY <2>1 DEF HasExecutedTrade, disk
  <2>3. Stuck => Stuck'
    BY <2>1 DEF Stuck, Unmarked, PendingPhases, disk
  <2>4. \A u \in Trades : CommitSurvives(u)' => CommitSurvives(u) /\ u \in todo'
    BY <1>0, <2>1 DEF CommitInv, CommitSurvives, disk
  <2>. QED BY <2>1, <2>2, <2>3, <2>4, RecoveryStep DEF disk
<1>5. ASSUME NEW t \in Trades, RecoverRefuse(t) PROVE BatchInv'
  <2>1. status = "recovering" /\ status' = "refused" /\ UNCHANGED <<disk, worker, batch>>
    BY <1>5 DEF RecoverRefuse
  <2>2. \A u \in Trades : /\ HasExecutedTrade(u) => HasExecutedTrade(u)'
                          /\ CommitSurvives(u)' => CommitSurvives(u)
    BY <2>1 DEF HasExecutedTrade, CommitSurvives, disk
  <2>3. Stuck => Stuck'
    BY <2>1 DEF Stuck, Unmarked, disk
  <2>. QED BY <2>1, <2>2, <2>3, RecoveryStep DEF disk
<1>6. CASE RecoverDone
  <2>1. /\ status = "recovering" /\ status' = "open" /\ todo = {}
        /\ UNCHANGED <<disk, worker, batch>>
    BY <1>6 DEF RecoverDone
  <2>2. \A u \in Trades : /\ HasExecutedTrade(u) => HasExecutedTrade(u)'
                          /\ CommitSurvives(u)' = CommitSurvives(u)
    BY <2>1 DEF HasExecutedTrade, CommitSurvives, disk
  <2>3. Quiet
    BY <1>0, <2>1 DEF RestInv, Stuck
  <2>4. \A u \in Trades : ~CommitSurvives(u)
    BY <1>0, <2>1 DEF CommitInv
  <2>. QED BY <2>1, <2>2, <2>3, <2>4, RecoveryStep DEF disk
<1>. QED
  BY <1>1, <1>2, <1>3, <1>4, <1>5, <1>6 DEF Recover

-----------------------------------------------------------------------------
(***************************************************************************)
(* The theorems                                                            *)
(***************************************************************************)
LEMMA InitBatch ==
  ASSUME Init
  PROVE  BatchInv
<1>1. \A w \in Workers : Idle(w) /\ AtRest(w)
  BY DEF Init, Idle, AtRest
<1>2. \A f \in Files : content[f] \notin Trades
  BY ConstantsAssumption DEF Init
<1>3. \A t \in Trades : content[t] = Absent
  BY ConstantsAssumption DEF Init, Files
<1>4. \A d, e \in Docs : content[d] = content[e]
  BY DEF Init, Files
<1>5. \A t \in Trades : ~CommitSurvives(t)
  BY DEF Init, CommitSurvives
<1>. QED
  BY <1>1, <1>2, <1>3, <1>4, <1>5
  DEF BatchInv, Alone, CallOK, TradeFiles, RestInv, Quiet, CommitInv

LEMMA BatchStep ==
  ASSUME Recoverable, DistinctDocs, TypeOK, BatchInv, [Next]_vars
  PROVE  BatchInv'
<1>1. ASSUME NEW w \in Workers, Persist(w) PROVE BatchInv'
  BY <1>1, ReserveBatch, PrepareBatch, MoveAsideBatch, InstallBatch, CommitBatch, EndBatch,
     ReleaseBatch, RollbackRemoveBatch, RollbackRestoreBatch DEF Persist
<1>2. ASSUME NEW w \in Workers, NEW t \in Trades, Reject(w, t) PROVE UNCHANGED vars
  BY <1>2 DEF Reject
<1>3. CASE UNCHANGED vars
  BY <1>3
  DEF vars, BatchInv, Alone, TradeFiles, RestInv, CommitInv, CallOK, Quiet, Stuck, Idle,
      AtRest, Unmarked, Undoable, Batch, OthersEvident, Progress, HasExecutedTrade,
      CommitSurvives
<1>. QED
  BY <1>1, <1>2, <1>3, BeginBatch, CrashBatch, RecoverBatch DEF Next

\* BatchInv, under the assumptions of the theorems below.
LEMMA BatchInvariant ==
  ASSUME Recoverable, DistinctDocs
  PROVE  Spec => [](TypeOK /\ BatchInv)
<1>1. TypeOK /\ BatchInv /\ [Next]_vars => BatchInv'
  BY BatchStep
<1>2. Init => BatchInv
  BY InitBatch
<1>. QED
  BY <1>1, <1>2, TypeCorrect, PTL DEF Spec

\* Between calls an open store shows the documents of one moment: an
\* interrupted batch was undone, or the store does not open.
THEOREM AllOrNothing ==
  ASSUME Recoverable, DistinctDocs
  PROVE  Spec => []DocumentsAgree
<1>1. BatchInv => DocumentsAgree
  BY DEF BatchInv, RestInv, Stuck, Idle, Quiet, DocumentsAgree
<1>. QED
  BY <1>1, BatchInvariant, PTL

\* What an open store shows of a trade is replay evidence of it, unless a call
\* for the trade still runs.
THEOREM VisibleIsEvident ==
  ASSUME Recoverable, DistinctDocs
  PROVE  Spec => []VisibleIsReplayEvident
<1>1. BatchInv => VisibleIsReplayEvident
  <2>. SUFFICES ASSUME BatchInv, status = "open", NEW t \in Trades, ~Executing(t),
                       NEW f \in Files, content[f] = t
                PROVE  HasExecutedTrade(t)
    BY DEF VisibleIsReplayEvident
  <2>1. CASE \A w \in Workers : Idle(w)
    BY <2>1 DEF BatchInv, RestInv, Stuck, Quiet
  <2>2. CASE \E w \in Workers : ~Idle(w)
    BY <2>2 DEF BatchInv, CallOK, OthersEvident, Executing, Idle
  <2>. QED BY <2>1, <2>2
<1>. QED
  BY <1>1, BatchInvariant, PTL

\* The marker of a trade is created, by the call or by recovery, only over the
\* files of that very trade.
THEOREM MarkerComesLast ==
  ASSUME Recoverable, DistinctDocs
  PROVE  Spec => MarkerMeansInstalled
<1>. DEFINE Installed == \A t \in executed' \ executed :
                           \A i \in 1 .. FileCount : content[FileOf(t, i)] = t
<1>1. TypeOK /\ BatchInv /\ [Next]_vars => Installed
  <2>. SUFFICES ASSUME TypeOK, BatchInv, [Next]_vars PROVE Installed
    OBVIOUS
  <2>1. ASSUME NEW w \in Workers, Persist(w) PROVE Installed
    <3>1. CASE Mark(w)
      <4>1. ~Idle(w) /\ pc[w] = "mark"
        BY <3>1 DEF Mark, At, Idle
      <4>2. done[w] = FileCount
        BY <4>1, BusyFacts DEF Progress
      <4>3. \A i \in 1 .. FileCount : content[FileOf(call[w], i)] = call[w]
        BY <4>1, <4>2, BusyFacts, InstalledFacts
      <4>. QED BY <3>1, <4>3 DEF Mark
    <3>2. CASE ~Mark(w)
      BY <2>1, <3>2
      DEF Persist, Reserve, Prepare, Apply, MoveAside, Install, CommitPhase, Record, Tidy,
          RemoveManifest, Release, RollbackRemove, RollbackRestore, RollbackDone, disk
    <3>. QED BY <3>1, <3>2
  <2>2. ASSUME NEW t \in Trades, RecoverCommitted(t) PROVE Installed
    BY <2>2 DEF RecoverCommitted, BatchInv, CommitInv
  <2>3. ASSUME NEW t \in Trades, RecoverExecuted(t) \/ RecoverPending(t) \/ RecoverRefuse(t)
        PROVE  Installed
    BY <2>3 DEF RecoverExecuted, RecoverPending, RecoverRefuse, disk
  <2>4. CASE Open \/ Crash \/ RecoverDone
    BY <2>4 DEF Open, Crash, RecoverDone, disk
  <2>5. ASSUME NEW w \in Workers, NEW t \in Trades, Begin(w, t) \/ Reject(w, t)
        PROVE  Installed
    BY <2>5 DEF Begin, Reject, disk, vars
  <2>6. CASE UNCHANGED vars
    BY <2>6 DEF vars
  <2>. HIDE DEF Installed
  <2>. QED BY <2>1, <2>2, <2>3, <2>4, <2>5, <2>6 DEF Next, Recover
<1>2. Installed => [\A t \in executed' \ executed :
                      \A i \in 1 .. FileCount : content[FileOf(t, i)] = t]_vars
  OBVIOUS
<1>. HIDE DEF Installed
<1>. QED
  BY <1>1, <1>2, BatchInvariant, PTL DEF Spec, MarkerMeansInstalled

\* No late call installs a trade that has its marker.
THEOREM NotReinstalled ==
  ASSUME Recoverable, DistinctDocs
  PROVE  Spec => NeverReinstalled
<1>. DEFINE Kept == \A w \in Workers : call[w] \in executed => done'[w] <= done[w]
<1>1. TypeOK /\ BatchInv /\ [Next]_vars => Kept
  <2>. SUFFICES ASSUME TypeOK, BatchInv, [Next]_vars,
                       NEW w \in Workers, call[w] \in executed
                PROVE  done'[w] <= done[w]
    OBVIOUS
  <2>0. done[w] \in Nat
    BY FileCountType DEF TypeOK
  <2>1. ASSUME NEW v \in Workers, Persist(v) PROVE done'[w] <= done[w]
    <3>1. CASE v # w
      BY <2>0, <2>1, <3>1, OwnArtifacts
    <3>2. CASE v = w /\ Install(v)
      <4>1. ~Idle(w) /\ pc[w] = "install"
        BY <3>2 DEF Install, At, Idle
      <4>. QED BY <4>1, BusyFacts DEF Progress, Unmarked
    <3>3. CASE v = w /\ ~Install(v)
      BY <2>0, <2>1, <3>3
      DEF Persist, Reserve, Prepare, Apply, MoveAside, CommitPhase, Record, Mark, Tidy,
          RemoveManifest, Release, RollbackRemove, RollbackRestore, RollbackDone, batch, TypeOK
    <3>. QED BY <3>1, <3>2, <3>3
  <2>2. CASE Open \/ Crash \/ Recover
    BY <2>0, <2>2
    DEF Open, Crash, Recover, RecoverExecuted, RecoverCommitted, RecoverPending,
        RecoverRefuse, RecoverDone, batch
  <2>3. ASSUME NEW v \in Workers, NEW t \in Trades, Begin(v, t) \/ Reject(v, t)
        PROVE  done'[w] <= done[w]
    BY <2>0, <2>3 DEF Begin, Reject, batch, vars
  <2>4. CASE UNCHANGED vars
    BY <2>0, <2>4 DEF vars
  <2>. QED BY <2>1, <2>2, <2>3, <2>4 DEF Next
<1>2. Kept => [\A w \in Workers : call[w] \in executed => done'[w] <= done[w]]_vars
  OBVIOUS
<1>. HIDE DEF Kept
<1>. QED
  BY <1>1, <1>2, BatchInvariant, PTL DEF Spec, NeverReinstalled

\* A commit record has its manifest until the marker is written.
RecordInv == \A t \in committed \ executed : manifest[t] = "committed"

LEMMA RecordStep ==
  ASSUME TypeOK, BatchInv, RecordInv, [Next]_vars
  PROVE  RecordInv'
<1>1. ASSUME NEW w \in Workers, Persist(w) PROVE RecordInv'
  <2>1. \A u \in Trades \ {call[w]} :
          /\ (u \in executed') = (u \in executed)
          /\ (u \in committed') = (u \in committed) /\ manifest'[u] = manifest[u]
    BY <1>1
    DEF Persist, Reserve, Prepare, Apply, MoveAside, Install, CommitPhase, Record, Mark,
        Tidy, RemoveManifest, Release, RollbackRemove, RollbackRestore, RollbackDone,
        SetManifest, TypeOK, disk
  <2>2. call[w] \in committed' \ executed' => manifest'[call[w]] = "committed"
    <3>1. CASE Prepare(w) \/ Apply(w) \/ Record(w) \/ Mark(w) \/ RemoveManifest(w)
      <4>1. ~Idle(w) /\ pc[w] \in {"prepare", "apply", "record", "mark", "unmanifest"}
        BY <3>1 DEF Prepare, Apply, Record, Mark, RemoveManifest, At, Idle
      <4>. QED
        BY <3>1, <4>1, BusyFacts
        DEF Prepare, Apply, Record, Mark, RemoveManifest, At, Progress, AtRest, Unmarked,
            SetManifest, TypeOK
    <3>2. CASE CommitPhase(w)
      BY <3>2 DEF CommitPhase, SetManifest, RecordInv, TypeOK
    <3>3. CASE ~(Prepare(w) \/ Apply(w) \/ Record(w) \/ Mark(w) \/ RemoveManifest(w)
                 \/ CommitPhase(w))
      BY <1>1, <3>3
      DEF Persist, Reserve, MoveAside, Install, Tidy, Release, RollbackRemove,
          RollbackRestore, RollbackDone, RecordInv, disk
    <3>. QED BY <3>1, <3>2, <3>3
  <2>3. committed' \subseteq Trades
    BY <1>1, TypeStep DEF TypeOK, Next
  <2>. QED BY <2>1, <2>2, <2>3 DEF RecordInv
<1>2. ASSUME NEW t \in Trades, RecoverExecuted(t) PROVE RecordInv'
  BY <1>2 DEF RecoverExecuted, RecordInv, TypeOK
<1>3. ASSUME NEW t \in Trades, RecoverCommitted(t) \/ RecoverPending(t) \/ RecoverRefuse(t)
      PROVE  RecordInv'
  BY <1>3 DEF RecoverCommitted, RecoverPending, RecoverRefuse, RecordInv, disk
<1>4. CASE Open \/ Crash \/ RecoverDone
  BY <1>4 DEF Open, Crash, RecoverDone, RecordInv, disk
<1>5. ASSUME NEW w \in Workers, NEW t \in Trades, Begin(w, t) \/ Reject(w, t)
      PROVE  RecordInv'
  BY <1>5 DEF Begin, Reject, RecordInv, disk, vars
<1>6. CASE UNCHANGED vars
  BY <1>6 DEF RecordInv, vars
<1>. QED
  BY <1>1, <1>2, <1>3, <1>4, <1>5, <1>6 DEF Next, Recover

\* Recovery never refuses a committed trade: wherever a crash comes, its
\* manifest and all of its targets are in place.
THEOREM CommitsRollForward ==
  ASSUME Recoverable, DistinctDocs
  PROVE  Spec => []CommittedRollsForward
<1>1. Init => RecordInv
  BY DEF Init, RecordInv
<1>2. TypeOK /\ BatchInv /\ RecordInv /\ [Next]_vars => RecordInv'
  BY RecordStep
<1>3. BatchInv /\ RecordInv => CommittedRollsForward
  <2>. SUFFICES ASSUME BatchInv, RecordInv,
                       NEW t \in Trades, CommitSurvives(t)
                PROVE  manifest[t] # "absent" /\ TargetsExist(t)
    BY DEF CommittedRollsForward
  <2>1. manifest[t] = "committed"
    BY DEF RecordInv, CommitSurvives
  <2>2. \A i \in 1 .. FileCount : content[FileOf(t, i)] = t
    BY DEF BatchInv, CommitInv
  <2>. QED BY <2>1, <2>2, ConstantsAssumption DEF TargetsExist
<1>. QED
  BY <1>1, <1>2, <1>3, BatchInvariant, PTL DEF Spec
===============================================================================
