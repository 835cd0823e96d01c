-------------------------- MODULE LifecycleProofs --------------------------
(***************************************************************************)
(* Proofs about the lifecycle of documents, for every set of documents and *)
(* processes and every bound: legal status changes and retained originals  *)
(* whatever fails, crashes, is redelivered or reconciled, and, when a task *)
(* goes over its document once, the refinement of DocumentLifecycle.       *)
(***************************************************************************)
EXTENDS IngestionLifecycle, IngestionProofs

-----------------------------------------------------------------------------
(***************************************************************************)
(* Status changes.                                                         *)
(***************************************************************************)
\* What a step may do to the status of a document.
Changes(d) ==
  \/ status'[d] = status[d]
  \/ status[d] = "absent" /\ status'[d] = "pending" /\ request[d] = "stored" /\ request'[d] = "committed"
  \/ HasRow(d) /\ status'[d] \in {"processing", "failed"}
  \/ HasRow(d) /\ Begun(d) /\ status'[d] = "ready"

LEMMA BegunStays ==
  ASSUME NEW d \in Docs, Changes(d), Begun(d)
  PROVE  Begun(d)'
  BY DEF Changes, Begun, HasRow, RowStatuses

\* Steps that leave requests and deletions alone.
LEMMA RowStep ==
  ASSUME TypeOK, StatusInv, UNCHANGED <<request, deletion>>, UNCHANGED cli \/ PlansBegun',
         \A d \in Docs : Changes(d),
         \A p \in Procs : at'[p] \in Building =>
           Begun(job[p])' \/ (at[p] \in Building /\ job'[p] = job[p])
  PROVE  StatusInv'
<1>1. ASSUME NEW d \in Docs
      PROVE  /\ HasRow(d) => HasRow(d)'
             /\ Begun(d) => Begun(d)'
             /\ status[d] = "deleted" => status'[d] = "deleted"
             /\ request[d] \in {"none", "stored"} => status'[d] = status[d]
  BY BegunStays DEF Changes, HasRow, RowStatuses, StatusInv, RowAfterRequest
<1>2. RowAfterRequest' /\ DeletionInv'
  BY <1>1 DEF StatusInv, RowAfterRequest, DeletionInv
<1>3. BuildsBegun'
  BY <1>1 DEF StatusInv, BuildsBegun, TypeOK, RunTypes, Building
<1>4. PlansBegun'
  BY <1>1 DEF StatusInv, PlansBegun, TypeOK, CliType
<1>5. QED
  BY <1>2, <1>3, <1>4 DEF StatusInv

LEMMA UploadStatus ==
  ASSUME TypeOK, StatusInv, NEW e \in Docs, UploadNext(e)
  PROVE  StatusInv' /\ \A d \in Docs : Changes(d)
<1>1. UNCHANGED <<deletion, cli>>
  BY DEF UploadNext, StoreUpload, CreatePending, Enqueue, EnqueueFails, MarkEnqueueFailure,
         RequestDies, IngestInline
<1>2. \A d \in Docs : Changes(d)
  BY DEF UploadNext, StoreUpload, CreatePending, Enqueue, EnqueueFails, MarkEnqueueFailure,
         RequestDies, IngestInline, MarkFailed, rowVars, Changes, TypeOK, RowTypes, RequestTypes,
         StatusInv, RowAfterRequest
<1>3. ASSUME NEW d \in Docs
      PROVE  /\ HasRow(d) => HasRow(d)'
             /\ Begun(d) => Begun(d)'
             /\ status[d] = "deleted" => status'[d] = "deleted"
  BY <1>2, BegunStays DEF Changes, HasRow, RowStatuses
<1>4. RowAfterRequest'
  BY DEF UploadNext, StoreUpload, CreatePending, Enqueue, EnqueueFails, MarkEnqueueFailure,
         RequestDies, IngestInline, MarkFailed, rowVars, TypeOK, RowTypes, RequestTypes,
         StatusInv, RowAfterRequest
<1>5. DeletionInv'
  BY <1>1, <1>3 DEF StatusInv, DeletionInv
<1>6. BuildsBegun'
  <2>1. \A p \in Procs : at'[p] \in Building => at[p] \in Building /\ job'[p] = job[p]
    BY DEF UploadNext, StoreUpload, CreatePending, Enqueue, EnqueueFails, MarkEnqueueFailure,
           RequestDies, IngestInline, procVars, TypeOK, RunTypes, Building
  <2>2. QED
    BY <1>3, <2>1 DEF StatusInv, BuildsBegun, TypeOK, RunTypes, Building
<1>7. PlansBegun'
  BY <1>1, <1>3 DEF StatusInv, PlansBegun, TypeOK, CliType
<1>8. QED
  BY <1>2, <1>4, <1>5, <1>6, <1>7 DEF StatusInv

LEMMA RunStatus ==
  ASSUME TypeOK, StatusInv, NEW p \in Procs, IngestNext(p) \/ DatabaseRaises(p)
  PROVE  StatusInv' /\ \A d \in Docs : Changes(d)
<1>1. UNCHANGED <<request, deletion, cli, job>>
  BY DEF IngestNext, Load, Prepare, OpenReplace, DeleteChunks, CommitReplace, ClearPoints, UpsertPoints,
         FinishReady, Reread, FinishFailed, DatabaseRaises, envVars
<1>2. at[p] # "idle" /\ job[p] \in Docs
  BY DEF IngestNext, Load, Prepare, OpenReplace, DeleteChunks, CommitReplace, ClearPoints, UpsertPoints,
         FinishReady, Reread, FinishFailed, DatabaseRaises, Go, TypeOK, RunTypes
<1>3. \A d \in Docs : Changes(d)
  <2>1. CASE UNCHANGED status
    BY <2>1 DEF Changes
  <2>2. CASE Load(p) \/ FinishFailed(p)
    BY <1>2, <2>2 DEF Load, FinishFailed, MarkProcessing, MarkFailed, Changes, TypeOK, RowTypes
  <2>3. CASE FinishReady(p)
    <3>1. Begun(job[p])
      BY <2>3 DEF FinishReady, Go, StatusInv, BuildsBegun, Building
    <3>2. QED
      BY <1>2, <2>3, <3>1 DEF FinishReady, MarkReady, Changes, TypeOK, RowTypes
  <2>4. QED
    BY <2>1, <2>2, <2>3 DEF IngestNext, Prepare, OpenReplace, DeleteChunks, CommitReplace, ClearPoints,
       UpsertPoints, Reread, DatabaseRaises, rowVars
<1>4. ASSUME NEW q \in Procs, at'[q] \in Building
      PROVE  Begun(job[q])' \/ at[q] \in Building
  <2>1. CASE q # p
    BY <1>4, <2>1 DEF IngestNext, Load, Prepare, OpenReplace, DeleteChunks, CommitReplace, ClearPoints,
       UpsertPoints, FinishReady, Reread, FinishFailed, DatabaseRaises, Go, TypeOK, RunTypes
  <2>2. CASE q = p /\ Load(p)
    BY <1>2, <1>4, <2>2 DEF Load, MarkProcessing, Begun, TypeOK, RunTypes, RowTypes, Building
  <2>3. CASE q = p /\ ~Load(p)
    BY <1>4, <2>3 DEF IngestNext, Prepare, OpenReplace, DeleteChunks, CommitReplace, ClearPoints,
       UpsertPoints, FinishReady, Reread, FinishFailed, DatabaseRaises, Go, TypeOK, RunTypes, Building
  <2>4. QED
    BY <2>1, <2>2, <2>3
<1>5. QED
  BY <1>1, <1>3, <1>4, RowStep

LEMMA TaskStatus ==
  ASSUME TypeOK, StatusInv, NEW w \in Workers, TaskNext(w) \/ FaultNext(w)
  PROVE  StatusInv' /\ \A d \in Docs : Changes(d)
<1>1. UNCHANGED <<request, deletion, cli>> /\ w \in Procs
  BY DEF TaskNext, FaultNext, Receive, Autoretry, RetriesExhausted, OnFailure, Ack, WorkerCrash,
         Redeliver, envVars, Procs
<1>2. \A d \in Docs : Changes(d)
  <2>1. CASE UNCHANGED status
    BY <2>1 DEF Changes
  <2>2. CASE OnFailure(w)
    <3>1. job[w] \in Docs
      BY <1>1, <2>2 DEF OnFailure, Go, TypeOK, RunTypes
    <3>2. QED
      BY <2>2, <3>1 DEF OnFailure, MarkFailed, rowVars, Changes, TypeOK, RowTypes
  <2>3. QED
    BY <2>1, <2>2 DEF TaskNext, FaultNext, Receive, Autoretry, RetriesExhausted, Ack, WorkerCrash,
       Redeliver, rowVars
<1>3. ASSUME NEW q \in Procs, at'[q] \in Building
      PROVE  at[q] \in Building /\ job'[q] = job[q]
  BY <1>1, <1>3 DEF TaskNext, FaultNext, Receive, Autoretry, RetriesExhausted, OnFailure, Ack,
     WorkerCrash, Redeliver, Release, procVars, Go, TypeOK, RunTypes, Building
<1>4. QED
  BY <1>1, <1>2, <1>3, RowStep

LEMMA InlineStatus ==
  ASSUME TypeOK, StatusInv, NEW p \in ApiThreads \cup CliThreads, InlineEnds(p) \/ InlineDies(p)
  PROVE  StatusInv' /\ \A d \in Docs : Changes(d)
<1>1. UNCHANGED <<status, request, deletion>> /\ cli' \in {cli, CliNext, CliIdle}
  BY DEF InlineEnds, InlineDies, rowVars
<1>2. \A d \in Docs : Changes(d)
  BY <1>1 DEF Changes
<1>3. UNCHANGED cli \/ PlansBegun'
  BY <1>1 DEF CliNext, CliIdle, PlansBegun, StatusInv, Begun
<1>4. ASSUME NEW q \in Procs, at'[q] \in Building
      PROVE  at[q] \in Building /\ job'[q] = job[q]
  BY <1>4 DEF InlineEnds, InlineDies, Release, TypeOK, RunTypes, Building
<1>5. QED
  BY <1>1, <1>2, <1>3, <1>4, RowStep

LEMMA CliStatus ==
  ASSUME TypeOK, StatusInv, CliStep
  PROVE  StatusInv' /\ \A d \in Docs : Changes(d)
<1>1. UNCHANGED <<request, deletion>>
  BY DEF CliStep, PlanRecovery, ApplyMarkReady, ApplyNothing, CliDies, ApplyReingest, ListStale
<1>2. \A d \in Docs : Changes(d)
  <2>1. CASE UNCHANGED status
    BY <2>1 DEF Changes
  <2>2. CASE ApplyMarkReady
    BY <2>2 DEF ApplyMarkReady, MarkReady, StatusInv, PlansBegun, Changes, TypeOK, RowTypes, CliType
  <2>3. QED
    BY <2>1, <2>2 DEF CliStep, PlanRecovery, ApplyNothing, CliDies, ApplyReingest, ListStale, rowVars
<1>3. PlansBegun'
  <2>1. ASSUME NEW d \in Docs, Begun(d)
        PROVE  Begun(d)'
    BY <1>2, <2>1, BegunStays
  <2>2. cli.todo \subseteq Docs
    BY DEF TypeOK, CliType
  <2>3. CASE cli' \in {CliIdle, CliNext, [CliNext EXCEPT !.at = "reingesting"]}
    BY <2>1, <2>2, <2>3 DEF CliIdle, CliNext, PlansBegun, StatusInv
  <2>4. ASSUME NEW S \in SUBSET Docs, ListStale(S)
        PROVE  PlansBegun'
    BY <2>4 DEF ListStale, PlansBegun, Begun, rowVars, TypeOK, CliType
  <2>5. ASSUME NEW d \in Docs, PlanRecovery(d)
        PROVE  PlansBegun'
    BY <2>1, <2>2, <2>5 DEF PlanRecovery, CliIdle, PlansBegun, StatusInv
  <2>6. QED
    BY <2>3, <2>4, <2>5 DEF CliStep, ApplyMarkReady, ApplyNothing, CliDies, ApplyReingest
<1>4. ASSUME NEW q \in Procs, at'[q] \in Building
      PROVE  at[q] \in Building /\ job'[q] = job[q]
  BY <1>4 DEF CliStep, PlanRecovery, ApplyMarkReady, ApplyNothing, CliDies, ApplyReingest, ListStale,
     procVars, Go, TypeOK, RunTypes, Building
<1>5. QED
  BY <1>1, <1>2, <1>3, <1>4, RowStep

\* Deletes take the row, which is not to come back.
LEMMA DeleteStatus ==
  ASSUME TypeOK, StatusInv, NEW e \in Docs, DeleteNext(e)
  PROVE  StatusInv' /\ \A d \in Docs : Changes(d) \/ (HasRow(d) /\ status'[d] = "deleted")
<1>1. UNCHANGED <<request, cli, at, job>>
  BY DEF DeleteNext, DeletePoints, DeleteRow, DeleteAborted, DeleteFile, procVars
<1>2. \A d \in Docs : Changes(d) \/ (HasRow(d) /\ status'[d] = "deleted")
  BY DEF DeleteNext, DeletePoints, DeleteRow, DeleteAborted, DeleteFile, rowVars, Changes, StatusInv,
         DeletionInv, TypeOK, RowTypes
<1>3. ASSUME NEW d \in Docs, Begun(d)
      PROVE  Begun(d)'
  BY <1>2, <1>3, BegunStays DEF Begun
<1>4. RowAfterRequest'
  BY DEF DeleteNext, DeletePoints, DeleteRow, DeleteAborted, DeleteFile, rowVars, HasRow, RowStatuses,
         StatusInv, RowAfterRequest, TypeOK, RowTypes, RequestTypes
<1>5. DeletionInv'
  BY DEF DeleteNext, DeletePoints, DeleteRow, DeleteAborted, DeleteFile, rowVars, HasRow, RowStatuses,
         StatusInv, DeletionInv, TypeOK, RowTypes, RequestTypes
<1>6. BuildsBegun'
  BY <1>1, <1>3 DEF StatusInv, BuildsBegun, TypeOK, RunTypes, Building
<1>7. PlansBegun'
  BY <1>1, <1>3 DEF StatusInv, PlansBegun, TypeOK, CliType
<1>8. QED
  BY <1>2, <1>4, <1>5, <1>6, <1>7 DEF StatusInv

LEMMA StatusStep == TypeOK /\ StatusInv /\ [Next]_vars =>
  StatusInv' /\ \A d \in Docs : Changes(d) \/ (HasRow(d) /\ status'[d] = "deleted")
<1> SUFFICES ASSUME TypeOK, StatusInv, [Next]_vars
             PROVE  StatusInv' /\ \A d \in Docs : Changes(d) \/ (HasRow(d) /\ status'[d] = "deleted")
  OBVIOUS
<1>1. ASSUME NEW d \in Docs, UploadNext(d)
      PROVE  StatusInv' /\ \A e \in Docs : Changes(e)
  BY <1>1, UploadStatus
<1>2. ASSUME NEW d \in Docs, DeleteNext(d)
      PROVE  StatusInv' /\ \A e \in Docs : Changes(e) \/ (HasRow(e) /\ status'[e] = "deleted")
  BY <1>2, DeleteStatus
<1>3. ASSUME NEW p \in Procs, IngestNext(p) \/ DatabaseRaises(p)
      PROVE  StatusInv' /\ \A e \in Docs : Changes(e)
  BY <1>3, RunStatus
<1>4. ASSUME NEW w \in Workers, TaskNext(w) \/ FaultNext(w)
      PROVE  StatusInv' /\ \A e \in Docs : Changes(e)
  BY <1>4, TaskStatus
<1>5. ASSUME NEW p \in ApiThreads \cup CliThreads, InlineEnds(p) \/ InlineDies(p)
      PROVE  StatusInv' /\ \A e \in Docs : Changes(e)
  BY <1>5, InlineStatus
<1>6. CASE CliStep
  BY <1>6, CliStatus
<1>7. CASE UNCHANGED vars
  BY <1>7 DEF vars, Changes, StatusInv, RowAfterRequest, DeletionInv, BuildsBegun, PlansBegun, Begun,
              HasRow
<1>8. QED
  BY <1>1, <1>2, <1>3, <1>4, <1>5, <1>6, <1>7 DEF Next

LEMMA StatusAlways == Spec => []StatusInv
<1>1. Init => StatusInv
  BY DEF Init, StatusInv, RowAfterRequest, DeletionInv, BuildsBegun, PlansBegun, Building, CliIdle
<1>2. TypeOK /\ StatusInv /\ [Next]_vars => StatusInv'
  BY StatusStep
<1>3. QED
  BY <1>1, <1>2, TypeCorrect, PTL DEF Spec

\* Whatever fails, crashes, is redelivered or reconciled, a row is created once
\* and as pending, is ready only after it was processing, and stays deleted
\* (the updates of DocumentIngestionRepository and who calls them).
THEOREM StatusChangesAreLegal == Spec => LegalStatusChanges
<1> DEFINE A == \A d \in Docs : status'[d] # status[d] => LegalChange(status[d], status'[d])
<1>1. TypeOK /\ StatusInv /\ [Next]_vars => A
  BY StatusStep DEF Changes, LegalChange, HasRow, RowStatuses, Begun
<1>2. TypeOK /\ StatusInv /\ [Next]_vars => [A]_vars
  BY <1>1
<1>3. QED
  BY <1>2, TypeCorrect, StatusAlways, PTL DEF Spec, LegalStatusChanges

-----------------------------------------------------------------------------
(***************************************************************************)
(* Originals.                                                              *)
(***************************************************************************)
LEMMA FileStep == TypeOK /\ StatusInv /\ FileInv /\ [Next]_vars => FileInv'
<1> SUFFICES ASSUME TypeOK, StatusInv, FileInv, [Next]_vars
             PROVE  FileInv'
  OBVIOUS
<1>1. \A d \in Docs : HasRow(d)' => HasRow(d) \/ request[d] = "stored"
  BY StatusStep DEF Changes, HasRow, RowStatuses
<1>2. UNCHANGED <<stored, request>> \/ \E d \in Docs : UploadNext(d) \/ DeleteFile(d)
  BY DEF Next, DeleteNext, DeletePoints, DeleteRow, DeleteAborted, IngestNext, Load, Prepare,
         OpenReplace, DeleteChunks, CommitReplace, ClearPoints, UpsertPoints, FinishReady, Reread, FinishFailed,
         DatabaseRaises, TaskNext, Receive, Autoretry, RetriesExhausted, OnFailure, Ack, FaultNext,
         WorkerCrash, Redeliver, InlineEnds, InlineDies, CliStep, PlanRecovery, ApplyMarkReady,
         ApplyNothing, CliDies, ApplyReingest, ListStale, envVars, vars
<1>3. ASSUME NEW e \in Docs, UploadNext(e)
      PROVE  \A d \in Docs : /\ request'[d] = "stored" => request[d] = "stored" \/ stored'[d]
                             /\ stored[d] => stored'[d]
  BY <1>3 DEF UploadNext, StoreUpload, CreatePending, Enqueue, EnqueueFails, MarkEnqueueFailure,
     RequestDies, IngestInline, TypeOK, RequestTypes, DataTypes
<1>4. ASSUME NEW e \in Docs, DeleteFile(e)
      PROVE  UNCHANGED request /\ \A d \in Docs : stored[d] => stored'[d] \/ status[d] = "deleted"
  BY <1>4 DEF DeleteFile, StatusInv, DeletionInv, TypeOK, DataTypes
<1>5. ASSUME NEW d \in Docs
      PROVE  /\ request'[d] = "stored" => request[d] = "stored" \/ stored'[d]
             /\ stored[d] => stored'[d] \/ status[d] = "deleted"
  BY <1>2, <1>3, <1>4
<1>6. \A d \in Docs : HasRow(d) \/ request[d] = "stored" => status[d] # "deleted"
  BY DEF HasRow, RowStatuses, StatusInv, RowAfterRequest
<1>7. OriginalRetained' /\ StoredFirst'
  BY <1>1, <1>5, <1>6 DEF FileInv, OriginalRetained, StoredFirst
<1>8. QED
  BY <1>7 DEF FileInv

\* A row always has its file: what failed can be ingested again, and only the
\* end of a delete request takes the file (DocumentPipelineService.delete).
THEOREM OriginalAlwaysRetained == Spec => []OriginalRetained
<1>1. Init => FileInv
  BY DEF Init, FileInv, OriginalRetained, StoredFirst, HasRow, RowStatuses
<1>2. FileInv => OriginalRetained
  BY DEF FileInv
<1>3. QED
  BY <1>1, <1>2, FileStep, TypeCorrect, StatusAlways, PTL DEF Spec

-----------------------------------------------------------------------------
(***************************************************************************)
(* Ready documents and their index, with one process.                      *)
(***************************************************************************)
\* Steps that leave the index alone, mark nothing ready, and bring no run
\* further than to its first step behind the status.
LEMMA SerialFrame ==
  ASSUME TypeOK, TypeOK', StatusInv, SerialInv,
         UNCHANGED <<chunks, synced, points, cli>>,
         \A d \in Docs : /\ status'[d] = "ready" => status[d] = "ready"
                         /\ HasRow(d)' => HasRow(d) \/ status[d] = "absent"
                         /\ deletion'[d] = "none" => deletion[d] = "none",
         \A p \in Procs : at'[p] \in Building =>
           \/ /\ at[p] \in Building /\ job'[p] = job[p]
              /\ at'[p] \in {"clearPoints", "upsert", "markReady"} => at'[p] = at[p]
           \/ at'[p] = "prepare" /\ status'[job'[p]] # "ready"
  PROVE  SerialInv'
<1>1. \A p \in Procs : at[p] \in Building => job[p] \in Docs /\ Begun(job[p])
  BY DEF TypeOK, RunTypes, Building, StatusInv, BuildsBegun
<1>2. BuildsUnready'
  BY <1>1 DEF SerialInv, BuildsUnready
<1>3. RunHasIndex'
  <2> SUFFICES ASSUME NEW d \in Docs, NEW p \in Procs, On(p, d)', HasRow(d)',
                      at'[p] \in {"clearPoints", "upsert", "markReady"}
               PROVE  /\ chunks'[d] = "pending"
                      /\ at'[p] = "markReady" /\ deletion'[d] = "none" => points'[d]
    BY DEF RunHasIndex
  <2>1. at[p] = at'[p] /\ job[p] = d /\ Begun(d)
    BY <1>1 DEF Building, On
  <2>2. On(p, d) /\ HasRow(d)
    BY <2>1 DEF On, Begun
  <2>3. QED
    BY <2>1, <2>2 DEF SerialInv, RunHasIndex
<1>4. ReadyIndexed'
  BY DEF SerialInv, ReadyIndexed, Indexed
<1>5. QED
  BY <1>2, <1>3, <1>4 DEF SerialInv, CliIdle

\* The steps of the only run: what it changes of the index is that of a document
\* that is not ready, until all of it is there.
LEMMA RunSerial ==
  ASSUME OneProcess, TypeOK, TypeOK', StatusInv, SerialInv, NEW p \in Procs,
         IngestNext(p) \/ DatabaseRaises(p)
  PROVE  SerialInv'
<1> DEFINE e == job[p]
<1>1. /\ \A q \in Procs : q = p
      /\ at[p] # "idle" /\ e \in Docs /\ at'[p] # "idle"
      /\ UNCHANGED <<job, deletion, cli>>
  <2>1. at[p] # "idle" /\ at'[p] # "idle" /\ UNCHANGED <<job, deletion, cli>>
    BY DEF IngestNext, DatabaseRaises, Load, Prepare, OpenReplace, DeleteChunks, CommitReplace, ClearPoints, UpsertPoints,
           FinishReady, Reread, FinishFailed, Go, ErrorPlaces, envVars, TypeOK, RunTypes
  <2>2. QED
    BY <2>1 DEF OneProcess, TypeOK, RunTypes
<1>2. at[p] \in Building => status[e] # "ready"
  BY DEF SerialInv, BuildsUnready
<1>3. at[p] \in {"clearPoints", "upsert", "markReady"} /\ HasRow(e) =>
        /\ chunks[e] = "pending"
        /\ at[p] = "markReady" /\ deletion[e] = "none" => points[e]
  BY <1>1 DEF SerialInv, RunHasIndex, On
<1>4. CASE Load(p) \/ Prepare(p) \/ OpenReplace(p) \/ DeleteChunks(p) \/ Reread(p) \/ FinishFailed(p) \/ DatabaseRaises(p)
  <2>1. UNCHANGED <<chunks, synced, points>>
    BY <1>4 DEF Load, MarkProcessing, Prepare, OpenReplace, DeleteChunks, Reread, FinishFailed, MarkFailed, DatabaseRaises, rowVars
  <2>2. \A d \in Docs : /\ status'[d] = "ready" => status[d] = "ready"
                        /\ HasRow(d)' => HasRow(d)
    BY <1>1, <1>4 DEF Load, MarkProcessing, Prepare, OpenReplace, DeleteChunks, Reread, FinishFailed, MarkFailed, DatabaseRaises,
                rowVars, HasRow, RowStatuses, TypeOK, RowTypes
  <2>3. at'[p] \in Building =>
          \/ at[p] \in Building /\ at'[p] \in {"replace", "deleting", "replacing"}
          \/ at'[p] = "prepare" /\ status'[e] # "ready"
    BY <1>1, <1>4 DEF Load, MarkProcessing, HasRow, Prepare, OpenReplace, DeleteChunks, Reread, FinishFailed, DatabaseRaises, Go,
                Building, TypeOK, RunTypes, RowTypes
  <2>4. QED
    BY <1>1, <2>1, <2>2, <2>3, SerialFrame
<1>5. CASE CommitReplace(p) \/ ClearPoints(p) \/ UpsertPoints(p) \/ FinishReady(p)
  <2>1. /\ at[p] \in Building
        /\ \A d \in Docs \ {e} : /\ status'[d] = status[d] /\ chunks'[d] = chunks[d]
                                 /\ synced'[d] = synced[d] /\ points'[d] = points[d]
        /\ HasRow(e)' => HasRow(e)
    BY <1>1, <1>5 DEF CommitReplace, ClearPoints, UpsertPoints, FinishReady, MarkReady, Go, Building, rowVars,
                HasRow, RowStatuses, TypeOK, RowTypes, DataTypes
  <2>2. \/ at'[p] \in {"raised", "reread"} \cup ErrorPlaces
        \/ at'[p] \in {"clearPoints", "upsert", "markReady"} /\ status'[e] # "ready"
    BY <1>1, <1>2, <1>5, <2>1 DEF CommitReplace, ClearPoints, UpsertPoints, FinishReady, Go, rowVars, TypeOK, RunTypes
  <2>3. at'[p] \in {"clearPoints", "upsert", "markReady"} /\ HasRow(e) =>
          /\ chunks'[e] = "pending"
          /\ at'[p] = "markReady" => points'[e]
    BY <1>1, <1>3, <1>5 DEF CommitReplace, ClearPoints, UpsertPoints, FinishReady, Go, ErrorPlaces, rowVars,
                            TypeOK, RunTypes, RowTypes, DataTypes
  <2>4. status'[e] = "ready" /\ deletion'[e] = "none" =>
          chunks'[e] = "embedded" /\ points'[e] /\ synced'[e]
    <3>1. CASE FinishReady(p)
      <4>1. at[p] = "markReady"
        BY <3>1 DEF FinishReady, Go
      <4>2. HasRow(e) => status'[e] = "ready" /\ synced'[e] /\ points'[e] = points[e]
                         /\ (chunks[e] = "pending" => chunks'[e] = "embedded")
        BY <1>1, <3>1 DEF FinishReady, MarkReady, TypeOK, RowTypes
      <4>3. ~HasRow(e) => status'[e] # "ready"
        BY <1>1, <3>1 DEF FinishReady, MarkReady, HasRow, RowStatuses, TypeOK, RowTypes
      <4>4. QED
        BY <1>1, <1>3, <4>1, <4>2, <4>3
    <3>2. CASE ~FinishReady(p)
      BY <1>2, <1>5, <2>1, <3>2 DEF CommitReplace, ClearPoints, UpsertPoints, rowVars
    <3>3. QED
      BY <3>1, <3>2
  <2> HIDE DEF e
  <2>5. BuildsUnready'
    BY <1>1, <2>2 DEF BuildsUnready, Building, ErrorPlaces, e
  <2>6. RunHasIndex'
    BY <1>1, <2>1, <2>2, <2>3 DEF RunHasIndex, On, e
  <2>7. ReadyIndexed'
    <3> SUFFICES ASSUME NEW d \in Docs, status'[d] = "ready", deletion'[d] = "none"
                 PROVE  Indexed(d)'
      BY DEF ReadyIndexed
    <3>1. CASE d = e
      BY <2>4, <3>1 DEF Indexed
    <3>2. CASE d # e
      BY <1>1, <2>1, <3>2 DEF SerialInv, ReadyIndexed, Indexed
    <3>3. QED
      BY <3>1, <3>2
  <2>8. QED
    BY <1>1, <2>5, <2>6, <2>7 DEF SerialInv, CliIdle
<1>6. QED
  BY <1>4, <1>5 DEF IngestNext

\* What begins or ends a run touches no index.
LEMMA TaskSerial ==
  ASSUME OneProcess, TypeOK, TypeOK', StatusInv, SerialInv,
         \/ \E w \in Workers : TaskNext(w) \/ FaultNext(w)
         \/ \E p \in ApiThreads \cup CliThreads : InlineEnds(p) \/ InlineDies(p)
  PROVE  SerialInv'
<1>1. PICK p \in Procs : \/ p \in Workers /\ (TaskNext(p) \/ FaultNext(p))
                         \/ InlineEnds(p) \/ InlineDies(p)
  BY DEF Procs
<1>2. UNCHANGED <<chunks, synced, points, deletion, cli>>
  BY <1>1 DEF TaskNext, FaultNext, Receive, Autoretry, RetriesExhausted, OnFailure, Ack, WorkerCrash, Redeliver,
              MarkFailed, InlineEnds, InlineDies, CliNext, CliIdle, SerialInv, rowVars, envVars
<1>3. \A d \in Docs : /\ status'[d] = "ready" => status[d] = "ready"
                      /\ HasRow(d)' => HasRow(d)
  BY <1>1 DEF TaskNext, FaultNext, Receive, Autoretry, RetriesExhausted, OnFailure, Ack, WorkerCrash, Redeliver,
              MarkFailed, InlineEnds, InlineDies, rowVars, HasRow, RowStatuses, TypeOK, RowTypes
<1>4. at'[p] \in Building => at'[p] = at[p] /\ job'[p] = job[p]
  BY <1>1 DEF TaskNext, FaultNext, Receive, Autoretry, RetriesExhausted, OnFailure, Ack, WorkerCrash, Redeliver,
              InlineEnds, InlineDies, Go, Building, procVars, TypeOK, RunTypes
<1>5. \A q \in Procs : at'[q] \in Building => at[q] \in Building /\ job'[q] = job[q] /\ at'[q] = at[q]
  BY <1>4 DEF OneProcess
<1>6. QED
  BY <1>2, <1>3, <1>5, SerialFrame

LEMMA UploadSerial ==
  ASSUME TypeOK, TypeOK', StatusInv, SerialInv, NEW e \in Docs, UploadNext(e)
  PROVE  SerialInv'
<1>1. UNCHANGED <<chunks, synced, points, deletion, cli>>
  BY DEF UploadNext, StoreUpload, CreatePending, Enqueue, EnqueueFails, MarkEnqueueFailure, MarkFailed,
         RequestDies, IngestInline, rowVars
<1>2. \A d \in Docs : Changes(d)
  BY UploadStatus
<1>3. \A d \in Docs : status'[d] = "ready" => status[d] = "ready"
  BY DEF UploadNext, StoreUpload, CreatePending, Enqueue, EnqueueFails, MarkEnqueueFailure, MarkFailed,
         RequestDies, IngestInline, rowVars, TypeOK, RowTypes
<1>4. \A d \in Docs : HasRow(d)' => HasRow(d) \/ status[d] = "absent"
  BY <1>2 DEF Changes, HasRow
<1>5. \A p \in Procs : at'[p] \in Building => at[p] = at'[p] /\ job'[p] = job[p]
  BY DEF UploadNext, StoreUpload, CreatePending, Enqueue, EnqueueFails, MarkEnqueueFailure,
         RequestDies, IngestInline, procVars, Building, TypeOK, RunTypes
<1>6. QED
  BY <1>1, <1>3, <1>4, <1>5, SerialFrame

\* A delete request that took the points takes the row.
LEMMA DeleteSerial ==
  ASSUME DeletesComplete, TypeOK, TypeOK', StatusInv, SerialInv, NEW e \in Docs, DeleteNext(e)
  PROVE  SerialInv'
<1>1. UNCHANGED <<at, job, cli>> /\ deletion'[e] # "none"
  BY DEF DeleteNext, DeletePoints, DeleteRow, DeleteAborted, DeleteFile, DeletesComplete, procVars,
         TypeOK, RequestTypes
<1>2. \A d \in Docs \ {e} : /\ status'[d] = status[d] /\ chunks'[d] = chunks[d] /\ synced'[d] = synced[d]
                            /\ points'[d] = points[d] /\ deletion'[d] = deletion[d]
  BY DEF DeleteNext, DeletePoints, DeleteRow, DeleteAborted, DeleteFile, rowVars, TypeOK, RowTypes, DataTypes,
         RequestTypes
<1>3. (status'[e] = status[e] /\ chunks'[e] = chunks[e]) \/ status'[e] = "deleted"
  BY DEF DeleteNext, DeletePoints, DeleteRow, DeleteAborted, DeleteFile, rowVars, TypeOK, RowTypes
<1>4. BuildsUnready'
  BY <1>1, <1>2, <1>3 DEF SerialInv, BuildsUnready, TypeOK, RunTypes, Building
<1>5. RunHasIndex'
  BY <1>1, <1>2, <1>3 DEF SerialInv, RunHasIndex, On, HasRow, RowStatuses
<1>6. ReadyIndexed'
  BY <1>1, <1>2 DEF SerialInv, ReadyIndexed, Indexed
<1>7. QED
  BY <1>1, <1>4, <1>5, <1>6 DEF SerialInv, CliIdle

LEMMA SerialStep ==
  ASSUME OneProcess, DeletesComplete, TypeOK, TypeOK', StatusInv, SerialInv, [Next]_vars
  PROVE  SerialInv'
<1>1. ~CliStep
  <2>1. cli.at = "idle" /\ ~Reconcile
    BY DEF SerialInv, CliIdle, OneProcess
  <2>2. ~ApplyMarkReady /\ ~ApplyNothing /\ ~CliDies
    BY <2>1 DEF ApplyMarkReady, ApplyNothing, CliDies
  <2>3. (\A d \in Docs : ~PlanRecovery(d)) /\ (\A p \in CliThreads : ~ApplyReingest(p))
    BY <2>1 DEF PlanRecovery, ApplyReingest
  <2>4. \A S \in SUBSET Docs : ~ListStale(S)
    BY <2>1 DEF ListStale
  <2>5. QED
    BY <2>2, <2>3, <2>4 DEF CliStep
<1>2. CASE UNCHANGED vars
  BY <1>2 DEF vars, SerialInv, BuildsUnready, RunHasIndex, ReadyIndexed, Indexed, On, HasRow, CliIdle
<1>3. QED
  BY <1>1, <1>2, RunSerial, TaskSerial, UploadSerial, DeleteSerial DEF Next

\* A ready document can be retrieved although workers are lost, messages are
\* delivered again and publishes are in doubt, if one process does all the work.
THEOREM ReadyIsIndexedByOne ==
  ASSUME OneProcess, DeletesComplete
  PROVE  Spec => []ReadyIndexed
<1>1. Init => SerialInv
  BY DEF Init, SerialInv, BuildsUnready, RunHasIndex, ReadyIndexed, On, Building
<1>2. TypeOK /\ TypeOK' /\ StatusInv /\ SerialInv /\ [Next]_vars => SerialInv'
  BY SerialStep
<1>3. SerialInv => ReadyIndexed
  BY DEF SerialInv
<1>4. QED
  BY <1>1, <1>2, <1>3, TypeCorrect, StatusAlways, PTL DEF Spec

-----------------------------------------------------------------------------
(***************************************************************************)
(* Decisions: what a document is decided to be, once there is no work on   *)
(* it left.                                                                *)
(***************************************************************************)
InWork == Building \cup {"retry", "markFailed"}

\* A run goes on, or ends, and decides nothing.
LEMMA DecisionMoves ==
  ASSUME TypeOK, DecisionInv, NEW p \in Procs, UNCHANGED <<status, request, queued, synced>>,
         \A q \in Procs \ {p} : at'[q] = at[q] /\ job'[q] = job[q],
         at[p] # "idle", at'[p] # "load", at'[p] = "idle" \/ job'[p] = job[p],
         at'[p] \in InWork => at[p] \in InWork,
         at'[p] = "raised" => at[p] \in InWork,
         \A d \in Docs : chunks'[d] # "none" => chunks[d] # "none" \/ HasRow(d)
  PROVE  DecisionInv'
<1>1. \A q \in Procs, d \in Docs : On(q, d)' => On(q, d)
  BY DEF On
<1>2. AheadInv'
  <2>1. \A d \in Docs : Ahead(d)' => Ahead(d)
    BY <1>1 DEF Ahead
  <2>2. QED
    BY <2>1 DEF DecisionInv, AheadInv
<1>3. WorkInv'
  BY <1>1 DEF DecisionInv, WorkInv, InWork, Building
<1>4. FailedUnpublished'
  BY <1>1 DEF DecisionInv, FailedUnpublished, NotStarted
<1>5. SyncedIsReady' /\ ChunksHaveRow'
  BY DEF DecisionInv, SyncedIsReady, ChunksHaveRow, HasRow
<1>6. QED
  BY <1>2, <1>3, <1>4, <1>5 DEF DecisionInv

\* A run decides its document: nobody else is at work on it.
LEMMA DecisionDecides ==
  ASSUME TypeOK, DeliveryInv, DecisionInv, NEW p \in Procs, NEW d \in Docs, Live(p, d),
         at' = [at EXCEPT ![p] = at'[p]], at'[p] \in {"reread", "raised", "ack"},
         UNCHANGED <<job, queued, request>>,
         \A e \in Docs \ {d} : status'[e] = status[e] /\ synced'[e] = synced[e] /\ chunks'[e] = chunks[e],
         HasRow(d) => HasRow(d)',
         at'[p] = "raised" => status'[d] \notin {"pending", "ready"},
         synced'[d] => status'[d] = "ready",
         chunks'[d] # "none" => chunks[d] # "none"
  PROVE  DecisionInv'
<1>1. /\ \A n \in Attempts : queued[d][n] = 0
      /\ request[d] \notin {"committed", "enqueueFailed"}
      /\ \A q \in Procs \ {p} : On(q, d) => at[q] = "ack"
  BY DEF DeliveryInv, OneMessage, OneRun, StartsOnce, NotStarted, DecisionInv, FailedUnpublished, Live,
         TypeOK, QueueType
<1>2. \A q \in Procs, e \in Docs : /\ On(q, e)' <=> On(q, e)
                                   /\ On(q, e) /\ q # p => at'[q] = at[q]
  BY DEF On, Live, TypeOK, RunTypes
<1>3. AheadInv'
  <2>1. ~Ahead(d)'
    BY <1>1, <1>2 DEF Ahead
  <2>2. \A e \in Docs \ {d} : Ahead(e)' => Ahead(e)
    BY <1>2 DEF Ahead, Live, On
  <2>3. QED
    BY <2>1, <2>2 DEF DecisionInv, AheadInv
<1>4. WorkInv'
  BY <1>1, <1>2 DEF DecisionInv, WorkInv, Building, Live, On
<1>5. FailedUnpublished'
  BY <1>2 DEF DecisionInv, FailedUnpublished, NotStarted
<1>6. SyncedIsReady' /\ ChunksHaveRow'
  BY DEF DecisionInv, SyncedIsReady, ChunksHaveRow, HasRow
<1>7. QED
  BY <1>3, <1>4, <1>5, <1>6 DEF DecisionInv

LEMMA RunDecision ==
  ASSUME DecidedOnce, TypeOK, StatusInv, DeliveryInv, DecisionInv, NEW p \in Procs, IngestNext(p)
  PROVE  DecisionInv'
<1>1. at[p] # "idle" /\ job[p] \in Docs
  BY DEF IngestNext, Load, Prepare, OpenReplace, DeleteChunks, CommitReplace, ClearPoints, UpsertPoints,
         FinishReady, Reread, FinishFailed, Go, TypeOK, RunTypes
<1> DEFINE d == job[p]
<1>2. CASE Load(p)
  <2>1. /\ at[p] = "load" /\ On(p, d) /\ status[d] \notin {"ready", "failed"}
        /\ UNCHANGED <<job, queued, request, synced, chunks>>
    BY <1>1, <1>2 DEF Load, MarkProcessing, On, envVars, DecisionInv, AheadInv, Ahead
  <2>2. /\ status' = [status EXCEPT ![d] = IF HasRow(d) THEN "processing" ELSE @]
        /\ at' = [at EXCEPT ![p] = IF HasRow(d) THEN "prepare" ELSE "markFailed"]
    BY <1>2 DEF Load, MarkProcessing
  <2>3. \A q \in Procs, e \in Docs : On(q, e)' <=> On(q, e)
    BY <2>1, <2>2 DEF On, TypeOK, RunTypes
  <2>4. AheadInv'
    BY <2>1, <2>2, <2>3 DEF DecisionInv, AheadInv, Ahead, TypeOK, RunTypes, RowTypes
  <2>5. WorkInv'
    <3>1. status'[d] \notin {"pending", "ready", "failed"}
      BY <1>1, <2>1, <2>2 DEF HasRow, RowStatuses, TypeOK, RowTypes
    <3>2. \A e \in Docs \ {d} : status'[e] = status[e]
      BY <2>2 DEF TypeOK, RowTypes
    <3>3. \A q \in Procs \ {p} : at'[q] = at[q]
      BY <2>2 DEF TypeOK, RunTypes
    <3>4. \A e \in Docs \ {d} : ~On(p, e)
      BY DEF On
    <3>5. at'[p] # "raised"
      BY <2>2 DEF TypeOK, RunTypes
    <3>6. ASSUME NEW q \in Procs, NEW e \in Docs, On(q, e)'
          PROVE  /\ at'[q] \in Building \cup {"retry", "markFailed"} => status'[e] \notin {"pending", "ready", "failed"}
                 /\ at'[q] = "raised" => status'[e] \notin {"pending", "ready"}
      BY <2>3, <3>1, <3>2, <3>3, <3>4, <3>5, <3>6 DEF DecisionInv, WorkInv
    <3>7. QED
      BY <3>6 DEF WorkInv
  <2>6. FailedUnpublished'
    BY <2>1, <2>3 DEF DecisionInv, FailedUnpublished, NotStarted
  <2>7. SyncedIsReady' /\ ChunksHaveRow'
    BY <1>1, <2>1, <2>2 DEF DecisionInv, SyncedIsReady, ChunksHaveRow, HasRow, RowStatuses, TypeOK, RowTypes
  <2>8. QED
    BY <2>4, <2>5, <2>6, <2>7 DEF DecisionInv
<1>3. CASE FinishReady(p)
  <2>1. at' = [at EXCEPT ![p] = "reread"] /\ Live(p, d) /\ UNCHANGED <<job, queued, request>>
    BY <1>1, <1>3 DEF FinishReady, Go, Live, On, envVars
  <2>2. at'[p] = "reread"
    BY <2>1 DEF TypeOK, RunTypes
  <2>3. /\ \A e \in Docs \ {d} : status'[e] = status[e] /\ synced'[e] = synced[e] /\ chunks'[e] = chunks[e]
        /\ HasRow(d) => HasRow(d)'
        /\ synced'[d] => status'[d] = "ready"
        /\ chunks'[d] # "none" => chunks[d] # "none"
    BY <1>1, <1>3 DEF FinishReady, MarkReady, HasRow, RowStatuses, TypeOK, RowTypes
  <2>4. QED
    BY <1>1, <2>1, <2>2, <2>3, DecisionDecides
<1>4. CASE FinishFailed(p)
  <2>1. at' = [at EXCEPT ![p] = "raised"] /\ Live(p, d) /\ UNCHANGED <<job, queued, request, synced, chunks>>
    BY <1>1, <1>4 DEF FinishFailed, MarkFailed, Go, Live, On, envVars
  <2>2. at'[p] = "raised" /\ status[d] \notin {"pending", "ready", "failed"}
    BY <1>1, <1>4, <2>1 DEF FinishFailed, Go, Live, DecisionInv, WorkInv, TypeOK, RunTypes
  <2>3. /\ \A e \in Docs \ {d} : status'[e] = status[e]
        /\ status'[d] \in {status[d], "failed"}
        /\ HasRow(d) => HasRow(d)'
    BY <1>1, <1>4 DEF FinishFailed, MarkFailed, HasRow, RowStatuses, TypeOK, RowTypes
  <2>4. ~synced[d]
    BY <1>1, <2>2 DEF DecisionInv, SyncedIsReady
  <2>5. QED
    BY <1>1, <2>1, <2>2, <2>3, <2>4, DecisionDecides
<1>5. CASE Prepare(p) \/ OpenReplace(p) \/ DeleteChunks(p) \/ CommitReplace(p) \/ ClearPoints(p) \/ UpsertPoints(p) \/ Reread(p)
  <2>1. UNCHANGED <<status, request, queued, synced, job>>
    BY <1>5 DEF Prepare, OpenReplace, DeleteChunks, CommitReplace, ClearPoints, UpsertPoints, Reread, rowVars, envVars
  <2>2. /\ \A q \in Procs \ {p} : at'[q] = at[q]
        /\ at'[p] # "load"
        /\ at'[p] \in InWork => at[p] \in InWork
        /\ at'[p] = "raised" => at[p] \in InWork
    BY <1>5 DEF Prepare, OpenReplace, DeleteChunks, CommitReplace, ClearPoints, UpsertPoints, Reread, Go, ErrorPlaces,
       InWork, Building, TypeOK, RunTypes
  <2>3. \A e \in Docs : chunks'[e] # "none" => chunks[e] # "none" \/ HasRow(e)
    BY <1>1, <1>5 DEF Prepare, OpenReplace, DeleteChunks, CommitReplace, ClearPoints, UpsertPoints, Reread, rowVars,
       TypeOK, RowTypes
  <2>4. QED
    BY <1>1, <2>1, <2>2, <2>3, DecisionMoves
<1>6. QED
  BY <1>2, <1>3, <1>4, <1>5 DEF IngestNext

LEMMA TaskDecision ==
  ASSUME DecidedOnce, TypeOK, DeliveryInv, DecisionInv, NEW w \in Workers, TaskNext(w)
  PROVE  DecisionInv'
<1>1. w \in Procs
  BY DEF Procs
<1>2. ASSUME NEW d \in Docs, NEW n \in Attempts, Receive(w, d, n)
      PROVE  DecisionInv'
  <2>1. /\ UNCHANGED <<status, synced, chunks, request>>
        /\ queued[d][n] > 0 /\ Ahead(d)
    BY <1>2 DEF Receive, rowVars, envVars, Ahead
  <2>2. \A e \in Docs, m \in Attempts : queued'[e][m] > 0 => queued[e][m] > 0
    BY <1>2 DEF Receive, TypeOK, QueueType
  <2>3. \A q \in Procs, e \in Docs : On(q, e)' => \/ On(q, e) /\ at'[q] = at[q]
                                                  \/ q = w /\ e = d /\ at'[q] = "load"
    BY <1>1, <1>2 DEF Receive, Go, On, TypeOK, RunTypes
  <2>4. AheadInv'
    BY <2>1, <2>2, <2>3 DEF DecisionInv, AheadInv, Ahead
  <2>5. WorkInv'
    BY <2>1, <2>3 DEF DecisionInv, WorkInv, Building
  <2>6. FailedUnpublished'
    <3>1. request[d] # "enqueueFailed"
      BY <2>1 DEF DecisionInv, FailedUnpublished, NotStarted
    <3>2. ASSUME NEW e \in Docs, e # d
          PROVE  queued'[e] = queued[e]
      BY <1>2, <3>2 DEF Receive, TypeOK, QueueType
    <3>3. QED
      BY <2>1, <2>3, <3>1, <3>2 DEF DecisionInv, FailedUnpublished, NotStarted
  <2>7. QED
    BY <2>1, <2>4, <2>5, <2>6 DEF DecisionInv, SyncedIsReady, ChunksHaveRow, HasRow
<1>3. CASE Autoretry(w)
  <2> DEFINE d == job[w]
  <2>1. /\ UNCHANGED <<status, synced, chunks, request, job>>
        /\ at[w] = "retry" /\ at' = [at EXCEPT ![w] = "ack"] /\ d \in Docs /\ On(w, d)
    BY <1>1, <1>3 DEF Autoretry, Go, rowVars, envVars, TypeOK, RunTypes, On
  <2>2. status[d] \notin {"ready", "failed"} /\ request[d] # "enqueueFailed"
    BY <1>1, <2>1 DEF DecisionInv, WorkInv, FailedUnpublished, NotStarted
  <2>3. \A e \in Docs \ {d} : queued'[e] = queued[e]
    BY <1>3 DEF Autoretry, Publish, TypeOK, QueueType
  <2>4. \A q \in Procs, e \in Docs : On(q, e)' => On(q, e) /\ ((q = w /\ at'[q] = "ack") \/ at'[q] = at[q])
    BY <2>1 DEF On, TypeOK, RunTypes
  <2>5. AheadInv'
    BY <2>1, <2>2, <2>3, <2>4 DEF DecisionInv, AheadInv, Ahead
  <2>6. WorkInv'
    BY <2>1, <2>4 DEF DecisionInv, WorkInv, Building
  <2>7. FailedUnpublished'
    BY <2>1, <2>2, <2>3, <2>4 DEF DecisionInv, FailedUnpublished, NotStarted
  <2>8. QED
    BY <2>1, <2>5, <2>6, <2>7 DEF DecisionInv, SyncedIsReady, ChunksHaveRow, HasRow
<1>4. ASSUME RetriesExhausted(w) \/ Ack(w) \/ (OnFailure(w) /\ UNCHANGED rowVars)
      PROVE  DecisionInv'
  <2>1. /\ UNCHANGED <<status, request, queued, synced, chunks>>
        /\ \A q \in Procs \ {w} : at'[q] = at[q] /\ job'[q] = job[q]
        /\ at[w] # "idle"
        /\ at'[w] = "idle" \/ job'[w] = job[w]
        /\ at'[w] \notin InWork \cup {"load"}
        /\ at'[w] = "raised" => at[w] \in InWork
    BY <1>1, <1>4 DEF RetriesExhausted, Ack, OnFailure, Release, Go, rowVars, envVars, InWork, Building,
       TypeOK, RunTypes
  <2>2. QED
    BY <1>1, <2>1, DecisionMoves
<1>5. CASE OnFailure(w) /\ MarkFailed(job[w])
  <2> DEFINE d == job[w]
  <2>1. /\ UNCHANGED <<queued, request, job, synced, chunks>>
        /\ at[w] = "raised" /\ at' = [at EXCEPT ![w] = "ack"] /\ d \in Docs /\ Live(w, d)
    BY <1>1, <1>5 DEF OnFailure, MarkFailed, Go, envVars, TypeOK, RunTypes, On, Live
  <2>2. at'[w] = "ack" /\ ~synced[d]
    BY <1>1, <2>1 DEF DecisionInv, WorkInv, SyncedIsReady, Live, TypeOK, RunTypes
  <2>3. /\ \A e \in Docs \ {d} : status'[e] = status[e]
        /\ HasRow(d) => HasRow(d)'
    BY <1>5, <2>1 DEF MarkFailed, HasRow, RowStatuses, TypeOK, RowTypes
  <2>4. QED
    BY <1>1, <2>1, <2>2, <2>3, DecisionDecides
<1>6. QED
  BY <1>2, <1>3, <1>4, <1>5 DEF TaskNext, OnFailure

LEMMA InlineDecision ==
  ASSUME TypeOK, DecisionInv, NEW p \in ApiThreads \cup CliThreads, InlineEnds(p) \/ InlineDies(p)
  PROVE  DecisionInv'
<1>1. /\ p \in Procs
      /\ UNCHANGED <<status, request, queued, synced, chunks>>
      /\ \A q \in Procs \ {p} : at'[q] = at[q] /\ job'[q] = job[q]
      /\ at[p] # "idle" /\ at'[p] = "idle"
  BY DEF InlineEnds, InlineDies, Release, rowVars, TypeOK, RunTypes, Procs
<1>2. QED
  BY <1>1, DecisionMoves DEF InWork, Building

LEMMA UploadDecision ==
  ASSUME DecidedOnce, TypeOK, StatusInv, DeliveryInv, DecisionInv, NEW d \in Docs, UploadNext(d)
  PROVE  DecisionInv'
<1>1. \A e \in Docs \ {d} : status'[e] = status[e] /\ request'[e] = request[e] /\ queued'[e] = queued[e]
  BY DEF UploadNext, StoreUpload, CreatePending, Enqueue, EnqueueFails, MarkEnqueueFailure, RequestDies,
         IngestInline, MarkFailed, Publish, rowVars, TypeOK, RowTypes, RequestTypes, QueueType
<1>2. UNCHANGED <<synced, chunks>>
  BY DEF UploadNext, StoreUpload, CreatePending, Enqueue, EnqueueFails, MarkEnqueueFailure, RequestDies,
         IngestInline, MarkFailed, rowVars
<1>3. \A q \in Procs, e \in Docs : On(q, e)' => \/ On(q, e) /\ at'[q] = at[q]
                                                \/ e = d /\ at'[q] = "load" /\ request[d] = "committed"
  BY DEF UploadNext, StoreUpload, CreatePending, Enqueue, EnqueueFails, MarkEnqueueFailure, RequestDies,
         IngestInline, procVars, On, TypeOK, RunTypes
<1>4. Ahead(d)' => Ahead(d) \/ request'[d] = "committed"
  BY <1>3 DEF UploadNext, StoreUpload, CreatePending, Enqueue, EnqueueFails, MarkEnqueueFailure,
              RequestDies, IngestInline, Ahead, TypeOK, RequestTypes
<1>5. CASE status'[d] = status[d]
  <2>1. AheadInv'
    <3>1. request'[d] = "committed" => request[d] = "committed"
      BY <1>5 DEF UploadNext, StoreUpload, CreatePending, Enqueue, EnqueueFails, MarkEnqueueFailure,
                  RequestDies, IngestInline, TypeOK, RequestTypes, RowTypes, StatusInv, RowAfterRequest
    <3>2. ASSUME NEW e \in Docs, Ahead(e)'
          PROVE  Ahead(e)
      BY <1>1, <1>3, <1>4, <3>1, <3>2 DEF Ahead
    <3>3. QED
      BY <1>1, <1>5, <3>2 DEF DecisionInv, AheadInv
  <2>2. WorkInv'
    BY <1>1, <1>3, <1>5 DEF DecisionInv, WorkInv, Building
  <2>3. FailedUnpublished'
    <3>1. request'[d] = "enqueueFailed" => request[d] \in {"committed", "enqueueFailed"} /\ UNCHANGED <<queued, at, job>>
      BY DEF UploadNext, StoreUpload, CreatePending, Enqueue, EnqueueFails, MarkEnqueueFailure,
             RequestDies, IngestInline, TypeOK, RequestTypes, procVars, DecidedOnce
    <3>2. request'[d] = "enqueueFailed" => NotStarted(d)'
      BY <3>1 DEF DecisionInv, FailedUnpublished, DeliveryInv, StartsOnce, NotStarted, On
    <3>3. QED
      BY <1>1, <1>3, <3>2 DEF DecisionInv, FailedUnpublished, NotStarted
  <2>4. SyncedIsReady' /\ ChunksHaveRow'
    BY <1>1, <1>2, <1>5 DEF DecisionInv, SyncedIsReady, ChunksHaveRow, HasRow
  <2>5. QED
    BY <2>1, <2>2, <2>3, <2>4 DEF DecisionInv
<1>6. CASE status'[d] # status[d]
  <2>1. /\ CreatePending(d) \/ MarkEnqueueFailure(d)
        /\ UNCHANGED <<queued, at, job>>
    BY <1>6 DEF UploadNext, StoreUpload, Enqueue, EnqueueFails, RequestDies, IngestInline, rowVars,
                CreatePending, MarkEnqueueFailure, procVars
  <2>2. NotStarted(d) /\ NotStarted(d)'
    BY <2>1 DEF CreatePending, MarkEnqueueFailure, DecisionInv, FailedUnpublished, DeliveryInv,
                StartsOnce, NotStarted, On
  <2>3. /\ ~synced[d]
        /\ request'[d] # "enqueueFailed"
        /\ request'[d] = "committed" => status'[d] = "pending"
        /\ HasRow(d) => HasRow(d)'
    BY <2>1 DEF CreatePending, MarkEnqueueFailure, MarkFailed, StatusInv, RowAfterRequest, DecisionInv,
                SyncedIsReady, AheadInv, Ahead, HasRow, RowStatuses, TypeOK, RowTypes, RequestTypes
  <2>4. AheadInv'
    <3>1. ASSUME NEW e \in Docs, e # d, Ahead(e)'
          PROVE  Ahead(e)
      BY <1>1, <2>1, <3>1 DEF Ahead, On
    <3>2. Ahead(d)' => request'[d] = "committed"
      BY <2>2, <2>3 DEF Ahead, NotStarted, TypeOK, QueueType
    <3>3. QED
      BY <1>1, <2>3, <3>1, <3>2 DEF DecisionInv, AheadInv
  <2>5. WorkInv'
    BY <1>1, <2>1, <2>2 DEF DecisionInv, WorkInv, NotStarted, On
  <2>6. FailedUnpublished'
    BY <1>1, <2>1, <2>3 DEF DecisionInv, FailedUnpublished, NotStarted, On
  <2>7. SyncedIsReady' /\ ChunksHaveRow'
    BY <1>1, <1>2, <2>3 DEF DecisionInv, SyncedIsReady, ChunksHaveRow, HasRow
  <2>8. QED
    BY <2>4, <2>5, <2>6, <2>7 DEF DecisionInv
<1>7. QED
  BY <1>5, <1>6

LEMMA DeleteDecision ==
  ASSUME TypeOK, DecisionInv, NEW d \in Docs, DeleteNext(d)
  PROVE  DecisionInv'
<1>1. /\ UNCHANGED <<request, queued, at, job>>
      /\ \/ UNCHANGED <<status, synced, chunks>>
         \/ /\ status' = [status EXCEPT ![d] = "deleted"]
            /\ chunks' = [chunks EXCEPT ![d] = "none"]
            /\ synced' = [synced EXCEPT ![d] = FALSE]
  BY DEF DeleteNext, DeletePoints, DeleteRow, DeleteAborted, DeleteFile, rowVars, procVars
<1>2. \A e \in Docs : /\ status'[e] \in {status[e], "deleted"}
                      /\ synced'[e] \/ chunks'[e] # "none" =>
                           synced'[e] = synced[e] /\ chunks'[e] = chunks[e] /\ status'[e] = status[e]
  BY <1>1 DEF TypeOK, RowTypes
<1>3. AheadInv' /\ WorkInv' /\ FailedUnpublished'
  BY <1>1, <1>2 DEF DecisionInv, AheadInv, Ahead, WorkInv, FailedUnpublished, NotStarted, On
<1>4. SyncedIsReady' /\ ChunksHaveRow'
  BY <1>2 DEF DecisionInv, SyncedIsReady, ChunksHaveRow, HasRow
<1>5. QED
  BY <1>3, <1>4 DEF DecisionInv

\* The CLI marks ready only what is ready already, or gone.
LEMMA MarkReadyAgain ==
  ASSUME TypeOK, IndexInv, DecisionInv, ApplyMarkReady
  PROVE  /\ UNCHANGED status
         /\ \A d \in Docs : (synced'[d] => synced[d]) /\ (chunks'[d] # "none" <=> chunks[d] # "none")
<1>1. cli.doc \in Docs /\ (status[cli.doc] = "ready" \/ status[cli.doc] = "deleted")
    BY DEF ApplyMarkReady, IndexInv, PlanIsCurrent, DecisionInv, SyncedIsReady, TypeOK, CliType
<1>2. cli.doc \in Docs /\ (synced[cli.doc] \/ ~HasRow(cli.doc))
    BY DEF ApplyMarkReady, IndexInv, PlanIsCurrent, HasRow, RowStatuses, TypeOK, CliType
<1>3. QED
    BY <1>1, <1>2 DEF ApplyMarkReady, MarkReady, HasRow, RowStatuses, TypeOK, RowTypes

LEMMA DecisionStep ==
  ASSUME DecidedOnce, TypeOK, StatusInv, DeliveryInv, IndexInv, DecisionInv, [Next]_vars
  PROVE  DecisionInv'
<1>1. ASSUME UNCHANGED <<status, request, queued, at, job>>,
             \A d \in Docs : (synced'[d] => synced[d]) /\ (chunks'[d] # "none" <=> chunks[d] # "none")
      PROVE  DecisionInv'
  BY <1>1 DEF DecisionInv, AheadInv, Ahead, WorkInv, FailedUnpublished, NotStarted, On, SyncedIsReady,
              ChunksHaveRow, HasRow
<1>2. ASSUME NEW d \in Docs, UploadNext(d)
      PROVE  DecisionInv'
  BY <1>2, UploadDecision
<1>3. ASSUME NEW d \in Docs, DeleteNext(d)
      PROVE  DecisionInv'
  BY <1>3, DeleteDecision
<1>4. ASSUME NEW p \in Procs, IngestNext(p)
      PROVE  DecisionInv'
  BY <1>4, RunDecision
<1>5. ASSUME NEW p \in Procs, DatabaseRaises(p)
      PROVE  FALSE
  BY <1>5 DEF DatabaseRaises, DecidedOnce
<1>6. ASSUME NEW w \in Workers, TaskNext(w)
      PROVE  DecisionInv'
  BY <1>6, TaskDecision
<1>7. ASSUME NEW w \in Workers, FaultNext(w)
      PROVE  FALSE
  BY <1>7 DEF FaultNext, WorkerCrash, Redeliver, DecidedOnce, DeliveredOnce
<1>8. ASSUME NEW p \in ApiThreads \cup CliThreads, InlineEnds(p) \/ InlineDies(p)
      PROVE  DecisionInv'
  BY <1>8, InlineDecision
<1>9. CASE CliStep
  <2>1. CASE ApplyMarkReady
    BY <1>1, <2>1, MarkReadyAgain DEF ApplyMarkReady, procVars
  <2>2. CASE ~ApplyMarkReady
    BY <1>1, <1>9, <2>2 DEF CliStep, PlanRecovery, ApplyNothing, CliDies, ListStale, rowVars, procVars,
       DecidedOnce, DeliveredOnce
  <2>3. QED
    BY <2>1, <2>2
<1>10. CASE UNCHANGED vars
  BY <1>1, <1>10 DEF vars
<1>11. QED
  BY <1>2, <1>3, <1>4, <1>5, <1>6, <1>7, <1>8, <1>9, <1>10 DEF Next

LEMMA DecisionAlways ==
  ASSUME DecidedOnce
  PROVE  Spec => [](DeliveryInv /\ IndexInv /\ DecisionInv)
<1>1. Init => DeliveryInv /\ IndexInv /\ DecisionInv
  <2>1. Init => DeliveryInv
    BY DEF Init, DeliveryInv, StartsOnce, NotStarted, OneMessage, OneRun, On, Live
  <2>2. Init => IndexInv
    BY DEF Init, IndexInv, RowAfterRequest, SyncedIsOver, SyncedHasIndex, ReadyIsSynced,
           RunHasIndex, PlanIsCurrent, On, CliIdle
  <2>3. Init => DecisionInv
    BY DEF Init, DecisionInv, AheadInv, Ahead, WorkInv, FailedUnpublished, NotStarted, On, SyncedIsReady,
           ChunksHaveRow, HasRow
  <2>4. QED
    BY <2>1, <2>2, <2>3
<1>2. TypeOK /\ StatusInv /\ DeliveryInv /\ IndexInv /\ DecisionInv /\ [Next]_vars =>
        DeliveryInv' /\ IndexInv' /\ DecisionInv'
  BY DeliveryStep, IndexStep, DecisionStep DEF DecidedOnce
<1>3. QED
  BY <1>1, <1>2, TypeCorrect, StatusAlways, PTL DEF Spec

-----------------------------------------------------------------------------
(***************************************************************************)
(* Ingestion implements DocumentLifecycle: each of its steps is a step in  *)
(* the life of one document, or none.                                      *)
(***************************************************************************)
Rests(d) ==
  status'[d] = status[d] /\ Index'[d] = Index[d] /\ Withdrawn'[d] = Withdrawn[d]

\* The status changes as DocumentLifecycle lets it.
Turns(d) ==
  /\ Index'[d] = Index[d] /\ Withdrawn'[d] = Withdrawn[d]
  /\ \/ status[d] = "absent" /\ status'[d] = "pending"
     \/ status[d] = "pending" /\ status'[d] = "processing"
     \/ status[d] = "processing" /\ status'[d] = "ready" /\ (Index[d] \/ Withdrawn[d])
     \/ status[d] \in {"pending", "processing"} /\ status'[d] = "failed"

\* Its index does.
Rebuilds(d) ==
  status[d] = "processing" /\ status'[d] = "processing" /\ Withdrawn'[d] = Withdrawn[d]
Leaves(d) ==
  /\ HasRow(d) /\ Withdrawn'[d] /\ ~Index'[d]
  /\ \/ status'[d] = status[d]
     \/ Withdrawn[d] /\ status'[d] = "deleted"

LEMMA LifeStep ==
  ASSUME TypeOK, TypeOK', NEW e \in Docs, \A d \in Docs \ {e} : Rests(d),
         Rests(e) \/ Turns(e) \/ Rebuilds(e) \/ Leaves(e)
  PROVE  [Lifecycle!Next]_(Lifecycle!vars)
<1>1. /\ status \in [Docs -> RowStatuses \cup {"absent", "deleted"}]
      /\ status' \in [Docs -> RowStatuses \cup {"absent", "deleted"}]
      /\ Index \in [Docs -> BOOLEAN] /\ Withdrawn \in [Docs -> BOOLEAN]
  BY DEF TypeOK, RowTypes, DataTypes, Index, Withdrawn
<1>2. Index' \in [Docs -> BOOLEAN] /\ Withdrawn' \in [Docs -> BOOLEAN]
  BY DEF TypeOK, RowTypes, DataTypes, Index, Withdrawn
<1>3. /\ status' = [status EXCEPT ![e] = status'[e]]
      /\ Index' = [Index EXCEPT ![e] = Index'[e]]
      /\ Withdrawn' = [Withdrawn EXCEPT ![e] = Withdrawn'[e]]
  BY <1>1, <1>2 DEF Rests
<1>4. CASE Rests(e)
  BY <1>1, <1>2, <1>4 DEF Rests, Lifecycle!vars
<1>5. CASE Turns(e)
  <2>1. Index' = Index /\ Withdrawn' = Withdrawn
    BY <1>1, <1>2, <1>5 DEF Rests, Turns
  <2>2. \/ Lifecycle!Upload(e) \/ Lifecycle!Begin(e) \/ Lifecycle!Succeed(e) \/ Lifecycle!GiveUp(e)
    BY <1>3, <1>5, <2>1 DEF Turns, Lifecycle!Upload, Lifecycle!Begin, Lifecycle!Succeed, Lifecycle!GiveUp,
       Lifecycle!Move
  <2>3. QED
    BY <2>2 DEF Lifecycle!Next
<1>6. CASE Rebuilds(e)
  <2>1. status' = status /\ Withdrawn' = Withdrawn
    BY <1>1, <1>2, <1>6 DEF Rests, Rebuilds
  <2>2. Lifecycle!Build(e)
    BY <1>2, <1>3, <1>6, <2>1 DEF Rebuilds, Lifecycle!Build
  <2>3. QED
    BY <2>2 DEF Lifecycle!Next
<1>7. CASE Leaves(e)
  <2>1. Index' = [Index EXCEPT ![e] = FALSE] /\ Withdrawn' = [Withdrawn EXCEPT ![e] = TRUE]
    BY <1>2, <1>3, <1>7 DEF Leaves
  <2>2. CASE status'[e] = status[e]
    <3>1. status' = status /\ Lifecycle!Alive(e)
      BY <1>1, <1>7, <2>2 DEF Rests, Leaves, HasRow, RowStatuses, Lifecycle!Alive
    <3>2. Lifecycle!Withdraw(e)
      BY <2>1, <3>1 DEF Lifecycle!Withdraw
    <3>3. QED
      BY <3>2 DEF Lifecycle!Next
  <2>3. CASE Withdrawn[e] /\ status'[e] = "deleted"
    <3>1. Withdrawn' = Withdrawn
      BY <1>1, <1>2, <1>7, <2>3 DEF Rests, Leaves
    <3>2. Lifecycle!Remove(e)
      BY <1>3, <1>7, <2>1, <2>3, <3>1 DEF Leaves, HasRow, RowStatuses, Lifecycle!Remove, Lifecycle!Move
    <3>3. QED
      BY <3>2 DEF Lifecycle!Next
  <2>4. QED
    BY <1>7, <2>2, <2>3 DEF Leaves
<1>8. QED
  BY <1>4, <1>5, <1>6, <1>7

LEMMA UploadLife ==
  ASSUME TypeOK, TypeOK', StatusInv, DecisionInv, NEW d \in Docs, UploadNext(d)
  PROVE  [Lifecycle!Next]_(Lifecycle!vars)
<1>1. Index' = Index /\ Withdrawn' = Withdrawn
  BY DEF UploadNext, StoreUpload, CreatePending, Enqueue, EnqueueFails, MarkEnqueueFailure, RequestDies,
         IngestInline, MarkFailed, rowVars, Index, Withdrawn
<1>2. \A e \in Docs \ {d} : status'[e] = status[e]
  BY DEF UploadNext, StoreUpload, CreatePending, Enqueue, EnqueueFails, MarkEnqueueFailure, RequestDies,
         IngestInline, MarkFailed, rowVars, TypeOK, RowTypes
<1>3. \/ status'[d] = status[d]
      \/ status[d] = "absent" /\ status'[d] = "pending"
      \/ status[d] \in {"pending", "processing"} /\ status'[d] = "failed"
  <2>1. CASE CreatePending(d)
    BY <2>1 DEF CreatePending, StatusInv, RowAfterRequest, TypeOK, RowTypes
  <2>2. CASE MarkEnqueueFailure(d)
    BY <2>2 DEF MarkEnqueueFailure, MarkFailed, DecisionInv, AheadInv, Ahead, HasRow, RowStatuses,
                TypeOK, RowTypes
  <2>3. QED
    BY <2>1, <2>2 DEF UploadNext, StoreUpload, Enqueue, EnqueueFails, RequestDies, IngestInline, rowVars
<1>4. QED
  BY <1>1, <1>2, <1>3, LifeStep DEF Rests, Turns

LEMMA RunLife ==
  ASSUME TypeOK, TypeOK', IndexInv, DecisionInv, NEW p \in Procs, IngestNext(p)
  PROVE  [Lifecycle!Next]_(Lifecycle!vars)
<1> DEFINE d == job[p]
<1>1. /\ d \in Docs /\ On(p, d) /\ Withdrawn' = Withdrawn
      /\ status[d] \in RowStatuses \cup {"absent", "deleted"}
  BY DEF IngestNext, Load, Prepare, OpenReplace, DeleteChunks, CommitReplace, ClearPoints, UpsertPoints, FinishReady,
         Reread, FinishFailed, Go, envVars, On, TypeOK, RunTypes, RowTypes, Withdrawn
<1>2. \A e \in Docs \ {d} : /\ status'[e] = status[e] /\ points'[e] = points[e]
                            /\ chunks'[e] # "none" <=> chunks[e] # "none"
  BY DEF IngestNext, Load, Prepare, OpenReplace, DeleteChunks, CommitReplace, ClearPoints, UpsertPoints, FinishReady,
         Reread, FinishFailed, MarkProcessing, MarkReady, MarkFailed, rowVars, TypeOK, RowTypes, DataTypes
<1>3. \A e \in Docs \ {d} : Rests(e)
  BY <1>1, <1>2 DEF Rests, Index
<1>4. at[p] \in InWork => status[d] = "processing" \/ ~HasRow(d)
  BY <1>1 DEF DecisionInv, WorkInv, InWork, HasRow, RowStatuses
<1>5. ~HasRow(d) => chunks[d] = "none"
  BY <1>1 DEF DecisionInv, ChunksHaveRow
<1>6. CASE Load(p)
  <2>1. status[d] \notin {"ready", "failed"}
    BY <1>1, <1>6 DEF Load, DecisionInv, AheadInv, Ahead
  <2>2. Index' = Index
    BY <1>6 DEF Load, MarkProcessing, Index
  <2>3. \/ status'[d] = status[d]
        \/ status[d] = "pending" /\ status'[d] = "processing"
    BY <1>1, <1>6, <2>1 DEF Load, MarkProcessing, HasRow, RowStatuses, TypeOK, RowTypes
  <2>4. QED
    BY <1>1, <1>3, <2>2, <2>3, LifeStep DEF Rests, Turns
<1>7. CASE Prepare(p) \/ OpenReplace(p) \/ DeleteChunks(p) \/ Reread(p)
  <2>1. UNCHANGED <<status, Index>>
    BY <1>7 DEF Prepare, OpenReplace, DeleteChunks, Reread, rowVars, Index
  <2>2. QED
    BY <1>1, <1>3, <2>1, LifeStep DEF Rests
<1>8. CASE CommitReplace(p) \/ ClearPoints(p) \/ UpsertPoints(p)
  <2>1. UNCHANGED status /\ at[p] \in InWork /\ (HasRow(d) \/ UNCHANGED chunks)
    BY <1>8 DEF CommitReplace, ClearPoints, UpsertPoints, Go, rowVars, InWork, Building
  <2>2. CASE status[d] = "processing"
    BY <1>1, <1>3, <2>1, <2>2, LifeStep DEF Rebuilds
  <2>3. CASE ~HasRow(d)
    <3>1. Index'[d] = Index[d]
      BY <1>1, <1>5, <2>1, <2>3 DEF Index
    <3>2. QED
      BY <1>1, <1>3, <2>1, <3>1, LifeStep DEF Rests
  <2>4. QED
    BY <1>4, <2>1, <2>2, <2>3
<1>9. CASE FinishReady(p)
  <2>1. at[p] = "markReady" /\ at[p] \in InWork
    BY <1>9 DEF FinishReady, Go, InWork, Building
  <2>2. HasRow(d) => Index[d] \/ Withdrawn[d]
    BY <1>1, <2>1 DEF IndexInv, RunHasIndex, Index, Withdrawn
  <2>3. Index'[d] = Index[d] /\ status'[d] = IF HasRow(d) THEN "ready" ELSE status[d]
    BY <1>1, <1>9 DEF FinishReady, MarkReady, Index, TypeOK, RowTypes
  <2>4. QED
    BY <1>1, <1>3, <1>4, <2>1, <2>2, <2>3, LifeStep DEF Rests, Turns
<1>10. CASE FinishFailed(p)
  <2>1. at[p] \in InWork /\ Index' = Index
    BY <1>10 DEF FinishFailed, MarkFailed, Go, InWork, Index
  <2>2. status'[d] = IF HasRow(d) THEN "failed" ELSE status[d]
    BY <1>1, <1>10 DEF FinishFailed, MarkFailed, TypeOK, RowTypes
  <2>3. QED
    BY <1>1, <1>3, <1>4, <2>1, <2>2, LifeStep DEF Rests, Turns
<1>11. QED
  BY <1>6, <1>7, <1>8, <1>9, <1>10 DEF IngestNext

LEMMA TaskLife ==
  ASSUME TypeOK, TypeOK', DecisionInv, NEW w \in Workers, TaskNext(w)
  PROVE  [Lifecycle!Next]_(Lifecycle!vars)
<1>1. UNCHANGED <<Index, Withdrawn>>
  BY DEF TaskNext, Receive, Autoretry, RetriesExhausted, OnFailure, Ack, MarkFailed, rowVars, envVars,
         Index, Withdrawn
<1>2. CASE UNCHANGED status
  BY <1>1, <1>2 DEF Lifecycle!vars
<1>3. CASE OnFailure(w) /\ MarkFailed(job[w])
  <2> DEFINE d == job[w]
  <2>1. d \in Docs /\ w \in Procs /\ On(w, d) /\ at[w] = "raised"
    BY <1>3 DEF OnFailure, Go, On, TypeOK, RunTypes, Procs
  <2>2. status[d] \in RowStatuses => status[d] \in {"processing", "failed"}
    BY <2>1 DEF DecisionInv, WorkInv, RowStatuses
  <2>3. /\ \A e \in Docs \ {d} : status'[e] = status[e]
        /\ status'[d] = IF HasRow(d) THEN "failed" ELSE status[d]
    BY <1>3, <2>1 DEF MarkFailed, TypeOK, RowTypes
  <2>4. QED
    BY <1>1, <2>1, <2>2, <2>3, LifeStep DEF Rests, Turns, HasRow
<1>4. QED
  BY <1>2, <1>3 DEF TaskNext, Receive, Autoretry, RetriesExhausted, OnFailure, Ack, rowVars

LEMMA DeleteLife ==
  ASSUME DecidedOnce, TypeOK, TypeOK', StatusInv, NEW d \in Docs, DeleteNext(d)
  PROVE  [Lifecycle!Next]_(Lifecycle!vars)
<1>1. \A e \in Docs \ {d} : Rests(e)
  BY DEF DeleteNext, DeletePoints, DeleteRow, DeleteAborted, DeleteFile, rowVars, Rests, Index, Withdrawn,
         TypeOK, RowTypes, DataTypes, RequestTypes
<1>2. CASE DeletePoints(d) \/ DeleteRow(d)
  <2>1. HasRow(d)
    BY <1>2 DEF DeletePoints, DeleteRow, StatusInv, DeletionInv
  <2>2. Withdrawn'[d] /\ ~Index'[d]
    <3>1. deletion'[d] # "none" /\ (points'[d] = FALSE \/ chunks'[d] = "none")
      BY <1>2 DEF DeletePoints, DeleteRow, TypeOK, RowTypes, DataTypes, RequestTypes
    <3>2. QED
      BY <3>1 DEF Index, Withdrawn
  <2>3. \/ status'[d] = status[d]
        \/ Withdrawn[d] /\ status'[d] = "deleted"
    BY <1>2 DEF DeletePoints, DeleteRow, rowVars, Withdrawn, TypeOK, RowTypes
  <2>4. QED
    BY <1>1, <2>1, <2>2, <2>3, LifeStep DEF Leaves
<1>3. CASE DeleteFile(d)
  <2>1. Rests(d)
    BY <1>3 DEF DeleteFile, rowVars, Rests, Index, Withdrawn, TypeOK, RequestTypes
  <2>2. QED
    BY <1>1, <2>1, LifeStep
<1>4. QED
  BY <1>2, <1>3 DEF DeleteNext, DeleteAborted, DecidedOnce, DeletesComplete

LEMMA EveryStepLives ==
  ASSUME DecidedOnce, TypeOK, TypeOK', StatusInv, IndexInv, DecisionInv, [Next]_vars
  PROVE  [Lifecycle!Next]_(Lifecycle!vars)
<1>1. ASSUME NEW d \in Docs, UploadNext(d)
      PROVE  [Lifecycle!Next]_(Lifecycle!vars)
  BY <1>1, UploadLife
<1>2. ASSUME NEW d \in Docs, DeleteNext(d)
      PROVE  [Lifecycle!Next]_(Lifecycle!vars)
  BY <1>2, DeleteLife
<1>3. ASSUME NEW p \in Procs, IngestNext(p)
      PROVE  [Lifecycle!Next]_(Lifecycle!vars)
  BY <1>3, RunLife
<1>4. ASSUME NEW p \in Procs, DatabaseRaises(p)
      PROVE  FALSE
  BY <1>4 DEF DatabaseRaises, DecidedOnce
<1>5. ASSUME NEW w \in Workers, TaskNext(w)
      PROVE  [Lifecycle!Next]_(Lifecycle!vars)
  BY <1>5, TaskLife
<1>6. ASSUME NEW w \in Workers, FaultNext(w)
      PROVE  FALSE
  BY <1>6 DEF FaultNext, WorkerCrash, Redeliver, DecidedOnce, DeliveredOnce
<1>7. ASSUME NEW p \in ApiThreads \cup CliThreads, InlineEnds(p) \/ InlineDies(p)
      PROVE  [Lifecycle!Next]_(Lifecycle!vars)
  BY <1>7 DEF InlineEnds, InlineDies, rowVars, Index, Withdrawn, Lifecycle!vars
<1>8. CASE CliStep
  <2>1. CASE ApplyMarkReady
    <3>1. UNCHANGED <<status, Index, Withdrawn>>
      BY <2>1, MarkReadyAgain DEF ApplyMarkReady, Index, Withdrawn
    <3>2. QED
      BY <3>1 DEF Lifecycle!vars
  <2>2. CASE ~ApplyMarkReady
    BY <1>8, <2>2 DEF CliStep, PlanRecovery, ApplyNothing, CliDies, ApplyReingest, ListStale, rowVars,
       Index, Withdrawn, Lifecycle!vars
  <2>3. QED
    BY <2>1, <2>2
<1>9. CASE UNCHANGED vars
  BY <1>9 DEF vars, Index, Withdrawn, Lifecycle!vars
<1>10. QED
  BY <1>1, <1>2, <1>3, <1>4, <1>5, <1>6, <1>7, <1>8, <1>9 DEF Next

\* Whatever upload, queue, workers, delete request and CLI do together is a life
\* of each document as its owner expects it, as long as the task goes over the
\* document once: pending, processing, then ready with its index or failed for
\* good, until it is withdrawn (ingest_document, tasks.py, document_pipeline.py).
THEOREM IngestionImplementsLifecycle ==
  ASSUME DecidedOnce
  PROVE  Spec => ImplementsLifecycle
<1>1. Init => Lifecycle!Init
  BY DEF Init, Lifecycle!Init, Index, Withdrawn
<1>2. TypeOK /\ TypeOK' /\ StatusInv /\ IndexInv /\ DecisionInv /\ [Next]_vars =>
        [Lifecycle!Next]_(Lifecycle!vars)
  BY EveryStepLives
<1>3. QED
  BY <1>1, <1>2, TypeCorrect, StatusAlways, DecisionAlways, PTL
  DEF Spec, ImplementsLifecycle, Lifecycle!Spec
=============================================================================
