-------------------------- MODULE IngestionProofs --------------------------
(***************************************************************************)
(* Proofs about Ingestion, for every set of documents and processes and    *)
(* every bound: the types, that no document is stranded, that runs do not  *)
(* overlap and that ready documents are indexed.                           *)
(***************************************************************************)
EXTENDS IngestionInvariants, TLAPS

-----------------------------------------------------------------------------
\* Publishing a message keeps the counts of the queue natural numbers.
LEMMA PublishType ==
  ASSUME QueueType, NEW d \in Docs, NEW n \in Attempts, Publish(d, n)
  PROVE  QueueType'
<1>1. [queued[d] EXCEPT ![n] = @ + 1] \in [Attempts -> Nat]
  BY DEF QueueType
<1>2. queued' = [queued EXCEPT ![d] = [queued[d] EXCEPT ![n] = @ + 1]]
  BY DEF Publish
<1>3. QED
  BY <1>1, <1>2 DEF QueueType

\* So does taking one that is there.
LEMMA TakeType ==
  ASSUME QueueType, NEW d \in Docs, NEW n \in Attempts, queued[d][n] > 0,
         queued' = [queued EXCEPT ![d][n] = @ - 1]
  PROVE  QueueType'
<1>1. [queued[d] EXCEPT ![n] = @ - 1] \in [Attempts -> Nat]
  BY DEF QueueType
<1>2. queued' = [queued EXCEPT ![d] = [queued[d] EXCEPT ![n] = @ - 1]]
  OBVIOUS
<1>3. QED
  BY <1>1, <1>2 DEF QueueType

\* mark_failed keeps the row well formed.
LEMMA MarkFailedType ==
  ASSUME RowTypes, NEW d \in Docs, MarkFailed(d)
  PROVE  RowTypes'
  BY DEF MarkFailed, RowTypes, RowStatuses

(***************************************************************************)
(* Type correctness: every variable of Ingestion keeps its type.           *)
(***************************************************************************)
THEOREM TypeCorrect == Spec => []TypeOK
<1>1. Init => TypeOK
  BY ConstantsAssumption
  DEF Init, TypeOK, Procs, Attempts, Places, CliIdle, Actions, RowStatuses, RowTypes, DataTypes,
      RequestTypes, QueueType, RunTypes, CliType, BudgetTypes
<1>2. TypeOK /\ [Next]_vars => TypeOK'
  <2> SUFFICES ASSUME TypeOK, [Next]_vars PROVE TypeOK'
    OBVIOUS
  <2> USE ConstantsAssumption DEF TypeOK
  <2>1. ASSUME NEW d \in Docs, StoreUpload(d) PROVE TypeOK'
    <3>1. DataTypes' /\ RequestTypes'
      BY <2>1 DEF StoreUpload, DataTypes, RequestTypes
    <3>2. RowTypes' /\ QueueType' /\ CliType' /\ BudgetTypes'
      BY <2>1 DEF StoreUpload, rowVars, budgetVars, RowTypes, QueueType, CliType, BudgetTypes
    <3>3. RunTypes'
      BY <2>1 DEF StoreUpload, procVars, RunTypes
    <3>4. QED
      BY <3>1, <3>2, <3>3
  <2>2. ASSUME NEW d \in Docs, CreatePending(d) PROVE TypeOK'
    BY <2>2 DEF CreatePending, procVars, budgetVars, Procs, Places, Attempts, Actions,
       RowStatuses, envVars, RowTypes, DataTypes, RequestTypes, QueueType, RunTypes, CliType,
       BudgetTypes
  <2>3. ASSUME NEW d \in Docs, Enqueue(d) PROVE TypeOK'
    <3>1. QueueType'
      BY <2>3, PublishType, ConstantsAssumption DEF Enqueue, Attempts
    <3>2. RowTypes' /\ DataTypes' /\ RequestTypes' /\ RunTypes' /\ CliType' /\ BudgetTypes'
      BY <2>3 DEF Enqueue, Publish, rowVars, procVars, budgetVars, Procs, Places, Attempts,
         Actions, RowStatuses, envVars, RowTypes, DataTypes, RequestTypes, RunTypes, CliType,
         BudgetTypes
    <3>3. QED
      BY <3>1, <3>2
  <2>4. ASSUME NEW d \in Docs, EnqueueFails(d) PROVE TypeOK'
    <3>1. QueueType'
      <4>1. CASE UNCHANGED queued
        BY <4>1 DEF QueueType
      <4>2. CASE Publish(d, 0)
        BY <4>2, PublishType, ConstantsAssumption DEF Attempts
      <4>3. QED
        BY <2>4, <4>1, <4>2 DEF EnqueueFails
    <3>2. RowTypes' /\ DataTypes' /\ RequestTypes' /\ RunTypes' /\ CliType' /\ BudgetTypes'
      BY <2>4 DEF EnqueueFails, Publish, rowVars, procVars, budgetVars, Procs, Places,
         Attempts, Actions, RowStatuses, envVars, RowTypes, DataTypes, RequestTypes, RunTypes,
         CliType, BudgetTypes
    <3>3. QED
      BY <3>1, <3>2
  <2>5. ASSUME NEW d \in Docs, MarkEnqueueFailure(d) PROVE TypeOK'
    BY <2>5 DEF MarkEnqueueFailure, MarkFailed, HasRow, RowStatuses, procVars, budgetVars,
       Procs, Places, Attempts, Actions, envVars, RowTypes, DataTypes, RequestTypes,
       QueueType, RunTypes, CliType, BudgetTypes
  <2>6. ASSUME NEW d \in Docs, RequestDies(d) PROVE TypeOK'
    BY <2>6 DEF RequestDies, rowVars, procVars, budgetVars, Procs, Places, Attempts, Actions,
       RowStatuses, envVars, RowTypes, DataTypes, RequestTypes, QueueType, RunTypes, CliType,
       BudgetTypes
  <2>7. ASSUME NEW d \in Docs, NEW p \in ApiThreads, IngestInline(d, p) PROVE TypeOK'
    BY <2>7 DEF IngestInline, rowVars, budgetVars, Procs, Places, Attempts, Actions,
       RowStatuses, envVars, RowTypes, DataTypes, RequestTypes, QueueType, RunTypes, CliType,
       BudgetTypes
  <2>8. ASSUME NEW p \in Procs, Load(p) PROVE TypeOK'
    BY <2>8 DEF Load, HasRow, RowStatuses, MarkProcessing, envVars, budgetVars, Procs, Places,
       Attempts, Actions, RowTypes, DataTypes, RequestTypes, QueueType, RunTypes, CliType,
       BudgetTypes
  <2>9. ASSUME NEW p \in Procs, Prepare(p) PROVE TypeOK'
    <3>1. RunTypes'
      BY <2>9 DEF Prepare, Go, rowVars, envVars, budgetVars, Procs, Places, Attempts, RunTypes
    <3>2. RowTypes' /\ DataTypes' /\ RequestTypes' /\ QueueType' /\ CliType' /\ BudgetTypes'
      BY <2>9 DEF Prepare, Go, rowVars, envVars, budgetVars, Procs, Places, Attempts, Actions,
         RowStatuses, RowTypes, DataTypes, RequestTypes, QueueType, CliType, BudgetTypes,
         RunTypes
    <3>3. QED
      BY <3>1, <3>2
  <2>10. ASSUME NEW p \in Procs, OpenReplace(p) \/ DeleteChunks(p) PROVE TypeOK'
    <3>1. RunTypes'
      BY <2>10 DEF OpenReplace, DeleteChunks, Go, Places, RunTypes
    <3>2. RowTypes' /\ DataTypes' /\ RequestTypes' /\ QueueType' /\ CliType' /\ BudgetTypes'
      BY <2>10 DEF OpenReplace, DeleteChunks, rowVars, envVars, budgetVars, RowTypes, DataTypes,
         RequestTypes, QueueType, CliType, BudgetTypes
    <3>3. QED
      BY <3>1, <3>2
  <2>11. ASSUME NEW p \in Procs, CommitReplace(p) PROVE TypeOK'
    <3>1. RunTypes'
      <4>1. at' \in [Procs -> Places] /\ \A q \in Procs : at'[q] # "idle" => job'[q] \in Docs
        BY <2>11 DEF CommitReplace, Go, RunTypes, Places
      <4>2. clash' \in [Procs -> BOOLEAN]
        BY <2>11 DEF CommitReplace, RunTypes
      <4>3. QED
        BY <2>11, <4>1, <4>2 DEF CommitReplace, RunTypes
    <3>2. RowTypes'
      BY <2>11 DEF CommitReplace, RowTypes
    <3>3. DataTypes' /\ RequestTypes' /\ QueueType' /\ CliType' /\ BudgetTypes'
      BY <2>11 DEF CommitReplace, envVars, budgetVars, DataTypes, RequestTypes, QueueType,
         CliType, BudgetTypes
    <3>4. QED
      BY <3>1, <3>2, <3>3
  <2>12. ASSUME NEW p \in Procs, ClearPoints(p) PROVE TypeOK'
    <3>1. DataTypes'
      <4>1. PICK v \in BOOLEAN : points' = [points EXCEPT ![job[p]] = v]
        BY <2>12 DEF ClearPoints, DataTypes, RunTypes
      <4>2. QED
        BY <2>12, <4>1 DEF ClearPoints, DataTypes, envVars
    <3>2. RunTypes'
      BY <2>12 DEF ClearPoints, Go, ErrorPlaces, rowVars, envVars, budgetVars, Procs, Places,
         Attempts, RunTypes, ErrorPlaces
    <3>3. RowTypes' /\ RequestTypes' /\ QueueType' /\ CliType' /\ BudgetTypes'
      BY <2>12 DEF ClearPoints, Go, ErrorPlaces, rowVars, envVars, budgetVars, Procs, Places,
         Attempts, Actions, RowStatuses, RowTypes, RequestTypes, QueueType, CliType,
         BudgetTypes, RunTypes
    <3>4. QED
      BY <3>1, <3>2, <3>3
  <2>13. ASSUME NEW p \in Procs, UpsertPoints(p) PROVE TypeOK'
    <3>1. DataTypes'
      <4>1. PICK v \in BOOLEAN : points' = [points EXCEPT ![job[p]] = v]
        BY <2>13 DEF UpsertPoints, DataTypes, RunTypes
      <4>2. QED
        BY <2>13, <4>1 DEF UpsertPoints, DataTypes, envVars
    <3>2. RunTypes'
      BY <2>13 DEF UpsertPoints, Go, ErrorPlaces, rowVars, envVars, budgetVars, Procs, Places,
         Attempts, RunTypes, ErrorPlaces
    <3>3. RowTypes' /\ RequestTypes' /\ QueueType' /\ CliType' /\ BudgetTypes'
      BY <2>13 DEF UpsertPoints, Go, ErrorPlaces, rowVars, envVars, budgetVars, Procs, Places,
         Attempts, Actions, RowStatuses, RowTypes, RequestTypes, QueueType, CliType,
         BudgetTypes, RunTypes
    <3>4. QED
      BY <3>1, <3>2, <3>3
  <2>14. ASSUME NEW p \in Procs, FinishReady(p) PROVE TypeOK'
    BY <2>14 DEF FinishReady, Go, MarkReady, HasRow, RowStatuses, envVars, budgetVars, Procs,
       Places, Attempts, Actions, RowTypes, DataTypes, RequestTypes, QueueType, RunTypes,
       CliType, BudgetTypes
  <2>15. ASSUME NEW p \in Procs, Reread(p) PROVE TypeOK'
    BY <2>15 DEF Reread, Go, rowVars, envVars, budgetVars, Procs, Places, Attempts, Actions,
       RowStatuses, RowTypes, DataTypes, RequestTypes, QueueType, RunTypes, CliType,
       BudgetTypes
  <2>16. ASSUME NEW p \in Procs, FinishFailed(p) PROVE TypeOK'
    BY <2>16 DEF FinishFailed, Go, MarkFailed, HasRow, RowStatuses, envVars, budgetVars,
       Procs, Places, Attempts, Actions, RowTypes, DataTypes, RequestTypes, QueueType,
       RunTypes, CliType, BudgetTypes
  <2>17. ASSUME NEW p \in Procs, DatabaseRaises(p) PROVE TypeOK'
    <3>1. RunTypes'
      BY <2>17 DEF DatabaseRaises, Go, rowVars, envVars, budgetVars, Procs, Places, Attempts,
         RunTypes
    <3>2. RowTypes' /\ DataTypes' /\ RequestTypes' /\ QueueType' /\ CliType' /\ BudgetTypes'
      BY <2>17 DEF DatabaseRaises, Go, rowVars, envVars, budgetVars, Procs, Places, Attempts,
         Actions, RowStatuses, RowTypes, DataTypes, RequestTypes, QueueType, CliType,
         BudgetTypes, RunTypes
    <3>3. QED
      BY <3>1, <3>2
  <2>18. ASSUME NEW w \in Workers, NEW d \in Docs, NEW n \in Attempts, Receive(w, d, n) PROVE TypeOK'
    <3>1. QueueType'
      BY <2>18, TakeType DEF Receive
    <3>2. RowTypes' /\ DataTypes' /\ RequestTypes' /\ RunTypes' /\ CliType' /\ BudgetTypes'
      BY <2>18 DEF Receive, Go, rowVars, envVars, budgetVars, Procs, Places, Attempts,
         Actions, RowStatuses, RowTypes, DataTypes, RequestTypes, RunTypes, CliType,
         BudgetTypes
    <3>3. QED
      BY <3>1, <3>2
  <2>19. ASSUME NEW w \in Workers, Autoretry(w) PROVE TypeOK'
    <3>1. QueueType'
      <4>1. job[w] \in Docs /\ attempt[w] + 1 \in Attempts /\ Publish(job[w], attempt[w] + 1)
        BY <2>19 DEF Autoretry, Go, RunTypes, Procs, Attempts
      <4>2. QED
        BY <4>1, PublishType
    <3>2. RowTypes' /\ DataTypes' /\ RequestTypes' /\ RunTypes' /\ CliType' /\ BudgetTypes'
      BY <2>19 DEF Autoretry, Go, Publish, rowVars, envVars, budgetVars, Procs, Places,
         Attempts, Actions, RowStatuses, RowTypes, DataTypes, RequestTypes, RunTypes, CliType,
         BudgetTypes
    <3>3. QED
      BY <3>1, <3>2
  <2>20. ASSUME NEW w \in Workers, RetriesExhausted(w) PROVE TypeOK'
    BY <2>20 DEF RetriesExhausted, Go, rowVars, envVars, budgetVars, Procs, Places, Attempts,
       Actions, RowStatuses, RowTypes, DataTypes, RequestTypes, QueueType, RunTypes, CliType,
       BudgetTypes
  <2>21. ASSUME NEW w \in Workers, OnFailure(w) PROVE TypeOK'
    <3>1. RowTypes'
      <4>1. job[w] \in Docs
        BY <2>21 DEF OnFailure, Go, RunTypes, Procs
      <4>2. MarkFailed(job[w]) \/ UNCHANGED rowVars
        BY <2>21 DEF OnFailure
      <4>3. QED
        BY <4>1, <4>2, MarkFailedType DEF RowTypes, rowVars
    <3>2. DataTypes' /\ RequestTypes' /\ QueueType' /\ RunTypes' /\ CliType' /\ BudgetTypes'
      BY <2>21 DEF OnFailure, Go, MarkFailed, HasRow, RowStatuses, rowVars, envVars,
         budgetVars, Procs, Places, Attempts, Actions, DataTypes, RequestTypes, QueueType,
         RunTypes, CliType, BudgetTypes
    <3>3. QED
      BY <3>1, <3>2
  <2>22. ASSUME NEW w \in Workers, Ack(w) PROVE TypeOK'
    <3>1. RunTypes'
      BY <2>22 DEF Ack, Go, Release, Procs, Places, Attempts, RunTypes
    <3>2. RowTypes' /\ DataTypes' /\ RequestTypes' /\ QueueType' /\ CliType' /\ BudgetTypes'
      BY <2>22 DEF Ack, rowVars, envVars, budgetVars, RowTypes, DataTypes, RequestTypes,
         QueueType, CliType, BudgetTypes
    <3>3. QED
      BY <3>1, <3>2
  <2>23. ASSUME NEW w \in Workers, WorkerCrash(w) PROVE TypeOK'
    <3>1. QueueType'
      <4>1. job[w] \in Docs /\ attempt[w] \in Attempts /\ Publish(job[w], attempt[w])
        BY <2>23 DEF WorkerCrash, Go, RunTypes, Procs, Attempts
      <4>2. QED
        BY <4>1, PublishType
    <3>2. RowTypes' /\ DataTypes' /\ RequestTypes' /\ RunTypes' /\ CliType' /\ BudgetTypes'
      BY <2>23 DEF WorkerCrash, Publish, Release, rowVars, Procs, Places, Attempts, Actions,
         RowStatuses, envVars, budgetVars, RowTypes, DataTypes, RequestTypes, RunTypes,
         CliType, BudgetTypes
    <3>3. QED
      BY <3>1, <3>2
  <2>24. ASSUME NEW w \in Workers, Redeliver(w) PROVE TypeOK'
    <3>1. QueueType'
      <4>1. job[w] \in Docs /\ attempt[w] \in Attempts /\ Publish(job[w], attempt[w])
        BY <2>24 DEF Redeliver, Go, RunTypes, Procs, Attempts
      <4>2. QED
        BY <4>1, PublishType
    <3>2. RowTypes' /\ DataTypes' /\ RequestTypes' /\ RunTypes' /\ CliType' /\ BudgetTypes'
      BY <2>24 DEF Redeliver, Publish, rowVars, procVars, Procs, Places, Attempts, Actions,
         RowStatuses, envVars, budgetVars, RowTypes, DataTypes, RequestTypes, RunTypes,
         CliType, BudgetTypes
    <3>3. QED
      BY <3>1, <3>2
  <2>25. ASSUME NEW p \in ApiThreads \cup CliThreads, InlineEnds(p) PROVE TypeOK'
    <3>1. RunTypes'
      BY <2>25 DEF InlineEnds, Release, CliNext, CliIdle, rowVars, budgetVars, Procs, Places,
         Attempts, envVars, RunTypes
    <3>2. RowTypes' /\ DataTypes' /\ RequestTypes' /\ QueueType' /\ CliType' /\ BudgetTypes'
      BY <2>25 DEF InlineEnds, Release, CliNext, CliIdle, rowVars, budgetVars, Procs, Places,
         Attempts, Actions, RowStatuses, envVars, RowTypes, DataTypes, RequestTypes,
         QueueType, CliType, BudgetTypes, RunTypes
    <3>3. QED
      BY <3>1, <3>2
  <2>26. ASSUME NEW p \in ApiThreads \cup CliThreads, InlineDies(p) PROVE TypeOK'
    <3>1. RunTypes'
      BY <2>26 DEF InlineDies, CliIdle, Release, rowVars, budgetVars, Procs, Places, Attempts,
         envVars, RunTypes
    <3>2. RowTypes' /\ DataTypes' /\ RequestTypes' /\ QueueType' /\ CliType' /\ BudgetTypes'
      BY <2>26 DEF InlineDies, CliIdle, Release, rowVars, budgetVars, Procs, Places, Attempts,
         Actions, RowStatuses, envVars, RowTypes, DataTypes, RequestTypes, QueueType, CliType,
         BudgetTypes, RunTypes
    <3>3. QED
      BY <3>1, <3>2
  <2>27. ASSUME NEW d \in Docs, DeletePoints(d) PROVE TypeOK'
    BY <2>27 DEF DeletePoints, HasRow, RowStatuses, rowVars, procVars, budgetVars, Procs,
       Places, Attempts, Actions, envVars, RowTypes, DataTypes, RequestTypes, QueueType,
       RunTypes, CliType, BudgetTypes
  <2>28. ASSUME NEW d \in Docs, DeleteRow(d) PROVE TypeOK'
    BY <2>28 DEF DeleteRow, ChunkRowsLocked, Procs, Replacing, procVars, budgetVars, Places,
       Attempts, Actions, RowStatuses, envVars, RowTypes, DataTypes, RequestTypes, QueueType,
       RunTypes, CliType, BudgetTypes
  <2>29. ASSUME NEW d \in Docs, DeleteAborted(d) PROVE TypeOK'
    BY <2>29 DEF DeleteAborted, rowVars, procVars, budgetVars, Procs, Places, Attempts,
       Actions, RowStatuses, envVars, RowTypes, DataTypes, RequestTypes, QueueType, RunTypes,
       CliType, BudgetTypes
  <2>30. ASSUME NEW d \in Docs, DeleteFile(d) PROVE TypeOK'
    <3>1. DataTypes' /\ RequestTypes'
      BY <2>30 DEF DeleteFile, DataTypes, RequestTypes
    <3>2. RowTypes' /\ QueueType' /\ CliType' /\ BudgetTypes'
      BY <2>30 DEF DeleteFile, rowVars, budgetVars, RowTypes, QueueType, CliType, BudgetTypes
    <3>3. RunTypes'
      BY <2>30 DEF DeleteFile, procVars, RunTypes
    <3>4. QED
      BY <3>1, <3>2, <3>3
  <2>31. ASSUME NEW S \in SUBSET Docs, ListStale(S) PROVE TypeOK'
    BY <2>31 DEF ListStale, rowVars, procVars, budgetVars, Procs, Places, Attempts, Actions,
       RowStatuses, envVars, RowTypes, DataTypes, RequestTypes, QueueType, RunTypes, CliType,
       BudgetTypes
  <2>32. ASSUME NEW d \in Docs, PlanRecovery(d) PROVE TypeOK'
    BY <2>32 DEF PlanRecovery, HasRow, RowStatuses, RecoveryAction, CliIdle, rowVars,
       procVars, budgetVars, Procs, Places, Attempts, Actions, envVars, RowTypes, DataTypes,
       RequestTypes, QueueType, RunTypes, CliType, BudgetTypes
  <2>33. CASE ApplyMarkReady
    BY <2>33 DEF ApplyMarkReady, MarkReady, HasRow, RowStatuses, CliNext, CliIdle, procVars,
       budgetVars, Procs, Places, Attempts, Actions, envVars, RowTypes, DataTypes,
       RequestTypes, QueueType, RunTypes, CliType, BudgetTypes
  <2>34. ASSUME NEW p \in CliThreads, ApplyReingest(p) PROVE TypeOK'
    BY <2>34 DEF ApplyReingest, Go, CliNext, CliIdle, rowVars, budgetVars, Procs, Places,
       Attempts, Actions, RowStatuses, envVars, RowTypes, DataTypes, RequestTypes, QueueType,
       RunTypes, CliType, BudgetTypes
  <2>35. CASE ApplyNothing
    BY <2>35 DEF ApplyNothing, CliNext, CliIdle, rowVars, procVars, budgetVars, Procs, Places,
       Attempts, Actions, RowStatuses, envVars, RowTypes, DataTypes, RequestTypes, QueueType,
       RunTypes, CliType, BudgetTypes
  <2>36. CASE CliDies
    BY <2>36 DEF CliDies, CliIdle, rowVars, procVars, budgetVars, Procs, Places, Attempts,
       Actions, RowStatuses, envVars, RowTypes, DataTypes, RequestTypes, QueueType, RunTypes,
       CliType, BudgetTypes
  <2>37. CASE UNCHANGED vars
    BY <2>37 DEF vars, Places, Actions, RowTypes, DataTypes, RequestTypes, QueueType, RunTypes, CliType, BudgetTypes
  <2>38. QED
    BY <2>1, <2>2, <2>3, <2>4, <2>5, <2>6, <2>7, <2>8, <2>9, <2>10, <2>11, <2>12, <2>13,
       <2>14, <2>15, <2>16, <2>17, <2>18, <2>19, <2>20, <2>21, <2>22, <2>23, <2>24, <2>25,
       <2>26, <2>27, <2>28, <2>29, <2>30, <2>31, <2>32, <2>33, <2>34, <2>35, <2>36, <2>37 DEF
       Next, UploadNext, IngestNext, TaskNext, FaultNext, DeleteNext, CliStep
<1>3. QED
  BY <1>1, <1>2, PTL DEF Spec
-----------------------------------------------------------------------------
(***************************************************************************)
(* One step keeps a resolver for every unresolved document: a run passes   *)
(* its duty to the next place, to the message it publishes or puts back,   *)
(* or discharges it by a write of "ready" or "failed". A run whose chunk   *)
(* transaction must fail lost to one that is past its own and still there. *)
(***************************************************************************)
LEMMA ResolverStep ==
  ASSUME CeleryOnly, DatabaseAnswers, TypeOK, ResolverInv, [Next]_vars
  PROVE  ResolverInv'
<1> SUFFICES ASSUME NEW d \in Docs PROVE Resolver(d)'
  BY DEF ResolverInv
<1>1. Resolver(d)
  BY DEF ResolverInv
<1>2. QED
  <2> USE <1>1, ConstantsAssumption DEF CeleryOnly, DatabaseAnswers
  <2>1. ASSUME NEW e \in Docs, StoreUpload(e) PROVE Resolver(d)'
    BY <2>1 DEF StoreUpload, rowVars, procVars, budgetVars, HasRow, RowStatuses,
       Resolver, Carried, Uploading, WillResolve, On, Procs, Attempts, TypeOK, RowTypes, QueueType, RequestTypes,
       CliType
  <2>2. ASSUME NEW e \in Docs, CreatePending(e) PROVE Resolver(d)'
    BY <2>2 DEF CreatePending, procVars, budgetVars, HasRow, RowStatuses,
       Resolver, Carried, Uploading, WillResolve, On, Procs, Attempts, TypeOK, RowTypes, RunTypes, QueueType,
       RequestTypes, CliType
  <2>3. ASSUME NEW e \in Docs, Enqueue(e) PROVE Resolver(d)'
    BY <2>3 DEF Enqueue, Publish, rowVars, procVars, budgetVars, HasRow,
       RowStatuses, Resolver, Carried, Uploading, WillResolve, On, Procs, Attempts, TypeOK, RowTypes, QueueType,
       RequestTypes, CliType
  <2>4. ASSUME NEW e \in Docs, EnqueueFails(e) PROVE Resolver(d)'
    BY <2>4 DEF EnqueueFails, Publish, rowVars, procVars, budgetVars, HasRow,
       RowStatuses, Resolver, Carried, Uploading, WillResolve, On, Procs, Attempts, TypeOK, RowTypes, RunTypes,
       QueueType, RequestTypes, CliType
  <2>5. ASSUME NEW e \in Docs, MarkEnqueueFailure(e) PROVE Resolver(d)'
    BY <2>5 DEF MarkEnqueueFailure, MarkFailed, HasRow, procVars, budgetVars, 
       RowStatuses, Resolver, Carried, Uploading, WillResolve, On, Procs, Attempts, TypeOK, RowTypes, QueueType,
       RequestTypes, CliType
  <2>6. ASSUME NEW e \in Docs, RequestDies(e) PROVE Resolver(d)'
    BY <2>6 DEF RequestDies, rowVars, procVars, budgetVars, HasRow, RowStatuses,
       Resolver, Carried, Uploading, WillResolve, On, Procs, Attempts, TypeOK, RowTypes, QueueType, RequestTypes,
       CliType
  <2>7. ASSUME NEW e \in Docs, NEW p \in ApiThreads, IngestInline(e, p) PROVE Resolver(d)'
    BY <2>7 DEF IngestInline, rowVars, budgetVars, HasRow, RowStatuses, Resolver, Carried, Uploading,
       WillResolve, On, Procs, Attempts, TypeOK, RowTypes, RunTypes, QueueType, RequestTypes,
       CliType
  <2>8. ASSUME NEW p \in Procs, Load(p) PROVE Resolver(d)'
    BY <2>8 DEF Load, HasRow, MarkProcessing, envVars, budgetVars, RowStatuses,
       Resolver, Carried, Uploading, WillResolve, On, Procs, Attempts, TypeOK, RowTypes, RunTypes, QueueType
  <2>9. ASSUME NEW p \in Procs, Prepare(p) PROVE Resolver(d)'
    <3>1. PICK to \in {"replace", "markFailed", "retry"} : Go(p, "prepare", to)
      BY <2>9 DEF Prepare
    <3>2. QED
      BY <2>9, <3>1
      DEF Prepare, Go, Resolver, Carried, Uploading, WillResolve, On, Procs, rowVars, envVars, TypeOK, RunTypes
  <2>10. ASSUME NEW p \in Procs, OpenReplace(p) \/ DeleteChunks(p) PROVE Resolver(d)'
    <3>1. PICK from \in {"replace", "deleting"}, to \in {"deleting", "replacing"} :
            /\ Go(p, from, to)
            /\ from = "replace" => ~clash'[p]
            /\ \A q \in Procs : q # p \/ from = "deleting" => clash'[q] = clash[q]
      BY <2>10 DEF OpenReplace, DeleteChunks, TypeOK, RunTypes
    <3>2. UNCHANGED <<status, request, queued, job, attempt>>
      BY <2>10 DEF OpenReplace, DeleteChunks, rowVars, envVars
    <3>3. \A w \in Workers : WillResolve(w, d) => WillResolve(w, d)'
      BY <3>1, <3>2 DEF Go, WillResolve, On, Procs, TypeOK, RunTypes
    <3>4. QED
      BY <3>2, <3>3 DEF Resolver, Carried, Uploading
  <2>11. ASSUME NEW p \in Procs, CommitReplace(p) PROVE Resolver(d)'
    <3>1. Resolver(d) /\ UNCHANGED <<status, request, queued>>
      BY <2>11 DEF CommitReplace, envVars
    <3>2. CASE job[p] # d \/ clash[p]
      <4>1. \A w \in Workers : WillResolve(w, d) => WillResolve(w, d)'
        BY <2>11, <3>2 DEF CommitReplace, Go, WillResolve, On, InChunkTransaction, Procs, TypeOK, RunTypes
      <4>2. QED
        BY <3>1, <4>1 DEF Resolver, Carried, Uploading
    <3>3. CASE job[p] = d /\ ~clash[p] /\ HasRow(d)
      <4>1. WillResolve(p, d)'
        BY <2>11, <3>3 DEF CommitReplace, Go, WillResolve, On, TypeOK, RunTypes
      <4>2. QED
        BY <4>1 DEF Resolver, Carried, Uploading, Procs
    <3>4. CASE ~HasRow(d)
      BY <3>1, <3>4 DEF Resolver, HasRow, RowStatuses
    <3>5. QED
      BY <3>2, <3>3, <3>4
  <2>12. ASSUME NEW p \in Procs, ClearPoints(p) PROVE Resolver(d)'
    <3>1. PICK to \in {"upsert", "markFailed", "retry"} : Go(p, "clearPoints", to)
      BY <2>12 DEF ClearPoints, ErrorPlaces
    <3>2. QED
      BY <2>12, <3>1
      DEF ClearPoints, Go, Resolver, Carried, Uploading, WillResolve, On, Procs, rowVars, envVars, TypeOK, RunTypes
  <2>13. ASSUME NEW p \in Procs, UpsertPoints(p) PROVE Resolver(d)'
    <3>1. PICK to \in {"markReady", "markFailed", "retry"} : Go(p, "upsert", to)
      BY <2>13 DEF UpsertPoints, ErrorPlaces
    <3>2. QED
      BY <2>13, <3>1
      DEF UpsertPoints, Go, Resolver, Carried, Uploading, WillResolve, On, Procs, rowVars, envVars, TypeOK, RunTypes
  <2>14. ASSUME NEW p \in Procs, FinishReady(p) PROVE Resolver(d)'
    BY <2>14 DEF FinishReady, Go, MarkReady, HasRow, envVars, budgetVars, 
       RowStatuses, Resolver, Carried, Uploading, WillResolve, On, Procs, Attempts, TypeOK, RowTypes, RunTypes,
       QueueType
  <2>15. ASSUME NEW p \in Procs, Reread(p) PROVE Resolver(d)'
    BY <2>15 DEF Reread, Go, rowVars, envVars, budgetVars, HasRow, RowStatuses,
       Resolver, Carried, Uploading, WillResolve, On, Procs, Attempts, TypeOK, RowTypes, RunTypes, QueueType
  <2>16. ASSUME NEW p \in Procs, FinishFailed(p) PROVE Resolver(d)'
    BY <2>16 DEF FinishFailed, Go, MarkFailed, HasRow, envVars, budgetVars, 
       RowStatuses, Resolver, Carried, Uploading, WillResolve, On, Procs, Attempts, TypeOK, RowTypes, RunTypes,
       QueueType
  <2>17. ASSUME NEW p \in Procs, DatabaseRaises(p) PROVE Resolver(d)'
    BY <2>17 DEF DatabaseRaises, Go, rowVars, envVars, budgetVars, HasRow,
       RowStatuses, Resolver, Carried, Uploading, WillResolve, On, Procs, Attempts, TypeOK, RowTypes, RunTypes,
       QueueType
  <2>18. ASSUME NEW w \in Workers, NEW e \in Docs, NEW n \in Attempts, Receive(w, e, n) PROVE Resolver(d)'
    BY <2>18 DEF Receive, Go, rowVars, envVars, budgetVars, HasRow, RowStatuses,
       Resolver, Carried, Uploading, WillResolve, On, Procs, Attempts, TypeOK, RowTypes, RunTypes, QueueType
  <2>19. ASSUME NEW w \in Workers, Autoretry(w) PROVE Resolver(d)'
    <3>1. /\ job[w] \in Docs /\ attempt[w] + 1 \in Attempts
          /\ queued[job[w]] \in [Attempts -> Nat]
      BY <2>19 DEF Autoretry, Go, Attempts, Procs, TypeOK, RunTypes, QueueType
    <3>2. CASE job[w] = d
      <4>1. queued'[d][attempt[w] + 1] > 0
        BY <2>19, <3>1, <3>2 DEF Autoretry, Publish, TypeOK, QueueType
      <4>2. QED
        BY <3>1, <4>1 DEF Resolver, Carried
    <3>3. CASE job[w] # d
      <4>1. queued'[d] = queued[d]
        BY <2>19, <3>1, <3>3 DEF Autoretry, Publish, TypeOK, QueueType
      <4>2. \A v \in Workers : WillResolve(v, d) => WillResolve(v, d)'
        BY <2>19, <3>3 DEF Autoretry, Go, WillResolve, On, Procs, TypeOK, RunTypes
      <4>3. QED
        BY <2>19, <4>1, <4>2 DEF Autoretry, Resolver, Carried, Uploading, rowVars, envVars
    <3>4. QED
      BY <3>2, <3>3
  <2>20. ASSUME NEW w \in Workers, RetriesExhausted(w) PROVE Resolver(d)'
    BY <2>20 DEF RetriesExhausted, Go, rowVars, envVars, budgetVars, HasRow,
       RowStatuses, Resolver, Carried, Uploading, WillResolve, On, Procs, Attempts, TypeOK, RowTypes, RunTypes,
       QueueType
  <2>21. ASSUME NEW w \in Workers, OnFailure(w) PROVE Resolver(d)'
    BY <2>21 DEF OnFailure, Go, MarkFailed, HasRow, rowVars, envVars, budgetVars, 
       RowStatuses, Resolver, Carried, Uploading, WillResolve, On, Procs, Attempts, TypeOK, RowTypes, RunTypes,
       QueueType
  <2>22. ASSUME NEW w \in Workers, Ack(w) PROVE Resolver(d)'
    BY <2>22 DEF Ack, Go, Release, rowVars, envVars, budgetVars, HasRow,
       RowStatuses, Resolver, Carried, Uploading, WillResolve, On, Procs, Attempts, TypeOK, RowTypes, RunTypes,
       QueueType
  <2>23. ASSUME NEW w \in Workers, WorkerCrash(w) PROVE Resolver(d)'
    BY <2>23 DEF WorkerCrash, Publish, Release, rowVars, HasRow, RowStatuses,
       Resolver, Carried, Uploading, WillResolve, On, Procs, Attempts, TypeOK, RowTypes, RunTypes, QueueType,
       RequestTypes, CliType
  <2>24. ASSUME NEW w \in Workers, Redeliver(w) PROVE Resolver(d)'
    BY <2>24 DEF Redeliver, Publish, rowVars, procVars, HasRow, RowStatuses,
       Resolver, Carried, Uploading, WillResolve, On, Procs, Attempts, TypeOK, RowTypes, RunTypes, QueueType,
       RequestTypes, CliType
  <2>25. ASSUME NEW p \in ApiThreads \cup CliThreads, InlineEnds(p) PROVE Resolver(d)'
    BY <2>25 DEF InlineEnds, Release, rowVars, budgetVars, HasRow, RowStatuses,
       Resolver, Carried, Uploading, WillResolve, On, Procs, Attempts, TypeOK, RowTypes, RunTypes, QueueType,
       RequestTypes, CliType
  <2>26. ASSUME NEW p \in ApiThreads \cup CliThreads, InlineDies(p) PROVE Resolver(d)'
    BY <2>26 DEF InlineDies, Release, rowVars, budgetVars, HasRow, RowStatuses,
       Resolver, Carried, Uploading, WillResolve, On, Procs, Attempts, TypeOK, RowTypes, RunTypes, QueueType,
       RequestTypes, CliType
  <2>27. ASSUME NEW e \in Docs, DeletePoints(e) PROVE Resolver(d)'
    BY <2>27 DEF DeletePoints, HasRow, rowVars, procVars, budgetVars, RowStatuses,
       Resolver, Carried, Uploading, WillResolve, On, Procs, Attempts, TypeOK, RowTypes, QueueType, RequestTypes,
       CliType
  <2>28. ASSUME NEW e \in Docs, DeleteRow(e) PROVE Resolver(d)'
    BY <2>28 DEF DeleteRow, ChunkRowsLocked, Procs, Replacing, procVars, budgetVars,
       HasRow, RowStatuses, Resolver, Carried, Uploading, WillResolve, On, Attempts, TypeOK, RowTypes,
       RunTypes, QueueType, RequestTypes, CliType
  <2>29. ASSUME NEW e \in Docs, DeleteAborted(e) PROVE Resolver(d)'
    BY <2>29 DEF DeleteAborted, rowVars, procVars, budgetVars, HasRow,
       RowStatuses, Resolver, Carried, Uploading, WillResolve, On, Procs, Attempts, TypeOK, RowTypes, QueueType,
       RequestTypes, CliType
  <2>30. ASSUME NEW e \in Docs, DeleteFile(e) PROVE Resolver(d)'
    BY <2>30 DEF DeleteFile, rowVars, procVars, budgetVars, HasRow, RowStatuses,
       Resolver, Carried, Uploading, WillResolve, On, Procs, Attempts, TypeOK, RowTypes, QueueType, RequestTypes,
       CliType
  <2>31. ASSUME NEW S \in SUBSET Docs, ListStale(S) PROVE Resolver(d)'
    BY <2>31 DEF ListStale, rowVars, procVars, budgetVars, HasRow, RowStatuses,
       Resolver, Carried, Uploading, WillResolve, On, Procs, Attempts, TypeOK, RowTypes, RunTypes, QueueType,
       RequestTypes, CliType
  <2>32. ASSUME NEW e \in Docs, PlanRecovery(e) PROVE Resolver(d)'
    BY <2>32 DEF PlanRecovery, HasRow, rowVars, procVars, budgetVars, RowStatuses,
       Resolver, Carried, Uploading, WillResolve, On, Procs, Attempts, TypeOK, RowTypes, RunTypes, QueueType,
       RequestTypes, CliType
  <2>33. CASE ApplyMarkReady
    BY <2>33 DEF ApplyMarkReady, MarkReady, HasRow, procVars, budgetVars, 
       RowStatuses, Resolver, Carried, Uploading, WillResolve, On, Procs, Attempts, TypeOK, RowTypes, RunTypes,
       QueueType, RequestTypes, CliType
  <2>34. ASSUME NEW p \in CliThreads, ApplyReingest(p) PROVE Resolver(d)'
    BY <2>34 DEF ApplyReingest, Go, rowVars, budgetVars, HasRow, RowStatuses,
       Resolver, Carried, Uploading, WillResolve, On, Procs, Attempts, TypeOK, RowTypes, RunTypes, QueueType,
       RequestTypes, CliType
  <2>35. CASE ApplyNothing
    BY <2>35 DEF ApplyNothing, rowVars, procVars, budgetVars, HasRow, RowStatuses,
       Resolver, Carried, Uploading, WillResolve, On, Procs, Attempts, TypeOK, RowTypes, RunTypes, QueueType,
       RequestTypes, CliType
  <2>36. CASE CliDies
    BY <2>36 DEF CliDies, rowVars, procVars, budgetVars, HasRow, RowStatuses,
       Resolver, Carried, Uploading, WillResolve, On, Procs, Attempts, TypeOK, RowTypes, RunTypes, QueueType,
       RequestTypes, CliType
  <2>37. CASE UNCHANGED vars
    BY <2>37 DEF vars, Resolver, Carried, Uploading, WillResolve, On
  <2>38. QED
    BY <2>1, <2>2, <2>3, <2>4, <2>5, <2>6, <2>7, <2>8, <2>9, <2>10, <2>11, <2>12, <2>13,
       <2>14, <2>15, <2>16, <2>17, <2>18, <2>19, <2>20, <2>21, <2>22, <2>23, <2>24, <2>25,
       <2>26, <2>27, <2>28, <2>29, <2>30, <2>31, <2>32, <2>33, <2>34, <2>35, <2>36, <2>37 DEF
       Next, UploadNext, IngestNext, TaskNext, FaultNext, DeleteNext, CliStep

(***************************************************************************)
(* No document is stranded, whatever crashes, redeliveries and publishing  *)
(* errors there are and however many workers and retries, as long as the   *)
(* database answers: only an upload request that died leaves one behind,   *)
(* and as pending.                                                         *)
(***************************************************************************)
THEOREM NothingStranded ==
  ASSUME CeleryOnly, DatabaseAnswers
  PROVE  Spec => []NoStranded
<1>1. Init => ResolverInv
  BY DEF Init, ResolverInv, Resolver
<1>2. TypeOK /\ ResolverInv /\ [Next]_vars => ResolverInv'
  BY ResolverStep
<1>3. TypeOK /\ ResolverInv => NoStranded
  BY DEF ResolverInv, Resolver, Carried, Uploading, NoStranded, Unresolved, Responsible, Outstanding,
         WillResolve, Procs
<1>4. QED
  BY <1>1, <1>2, <1>3, TypeCorrect, PTL DEF Spec
-----------------------------------------------------------------------------
\* Where the upload request of a document that was not passed on is.
Early == {"none", "stored", "committed"}

\* A step that publishes nothing and starts no run keeps the deliveries apart.
LEMMA SameDeliveries ==
  ASSUME DeliveryInv, UNCHANGED queued,
         \A f \in Docs : request'[f] \in Early => request[f] \in Early,
         \A q \in Procs, f \in Docs : (On(q, f)' => On(q, f)) /\ (Live(q, f)' => Live(q, f))
  PROVE  DeliveryInv'
<1>1. StartsOnce'
  BY DEF DeliveryInv, StartsOnce, NotStarted, Early
<1>2. OneMessage'
  BY DEF DeliveryInv, OneMessage
<1>3. OneRun'
  BY DEF DeliveryInv, OneRun
<1>4. QED
  BY <1>1, <1>2, <1>3 DEF DeliveryInv

\* A message published while its document has no other, and no live run, is the only one.
LEMMA Republication ==
  ASSUME TypeOK, DeliveryInv, NEW e \in Docs, NEW m \in Attempts, Publish(e, m),
         \A k \in Attempts : queued[e][k] = 0,
         request'[e] \notin {"none", "stored", "committed"},
         \A f \in Docs : f # e => request'[f] = request[f],
         \A q \in Procs, f \in Docs :
           (On(q, f)' => On(q, f)) /\ (Live(q, f)' => Live(q, f) /\ f # e)
  PROVE  DeliveryInv'
<1>1. queued[e] \in [Attempts -> Nat]
  BY DEF TypeOK, QueueType
<1>2. queued' = [queued EXCEPT ![e] = [queued[e] EXCEPT ![m] = @ + 1]]
  BY DEF Publish
<1>3. /\ \A f \in Docs : f # e => queued'[f] = queued[f]
      /\ \A k \in Attempts : queued'[e][k] = IF k = m THEN 1 ELSE 0
  BY <1>1, <1>2 DEF TypeOK, QueueType
<1>4. StartsOnce'
  BY <1>3 DEF DeliveryInv, StartsOnce, NotStarted
<1>5. OneMessage'
  <2> SUFFICES ASSUME NEW f \in Docs, NEW n \in Attempts, queued'[f][n] > 0
               PROVE  /\ queued'[f][n] = 1
                      /\ \A k \in Attempts : queued'[f][k] > 0 => k = n
                      /\ \A p \in Procs : ~Live(p, f)'
    BY DEF OneMessage
  <2>1. CASE f = e
    BY <1>3, <2>1
  <2>2. CASE f # e
    BY <1>3, <2>2 DEF DeliveryInv, OneMessage
  <2>3. QED
    BY <2>1, <2>2
<1>6. OneRun'
  BY DEF DeliveryInv, OneRun
<1>7. QED
  BY <1>4, <1>5, <1>6 DEF DeliveryInv

\* The first message of a document is published when its request passes it on.
LEMMA Publication ==
  ASSUME TypeOK, DeliveryInv, NEW e \in Docs, NEW s \in {"enqueueFailed", "refused", "died", "done"},
         request[e] = "committed", request' = [request EXCEPT ![e] = s],
         Publish(e, 0), UNCHANGED <<at, job>>
  PROVE  DeliveryInv'
<1>1. NotStarted(e)
  BY DEF DeliveryInv, StartsOnce
<1>2. \A q \in Procs, f \in Docs :
        (On(q, f)' => On(q, f)) /\ (Live(q, f)' => Live(q, f) /\ f # e)
  BY <1>1 DEF NotStarted, On, Live
<1>3. request'[e] = s /\ \A f \in Docs : f # e => request'[f] = request[f]
  BY DEF TypeOK, RequestTypes
<1>4. QED
  BY <1>1, <1>2, <1>3, Republication, ConstantsAssumption DEF NotStarted, Attempts

(***************************************************************************)
(* One step keeps the deliveries of a document apart.                      *)
(***************************************************************************)
LEMMA DeliveryStep ==
  ASSUME DeliveredOnce, TypeOK, DeliveryInv, [Next]_vars
  PROVE  DeliveryInv'
<1>1. QED
  <2> USE ConstantsAssumption DEF DeliveredOnce
  <2>1. ASSUME NEW e \in Docs, StoreUpload(e) PROVE DeliveryInv'
    BY <2>1, SameDeliveries DEF StoreUpload, Early, TypeOK, RequestTypes, procVars, On, Live,
       RunTypes, Procs
  <2>2. ASSUME NEW e \in Docs, CreatePending(e) PROVE DeliveryInv'
    BY <2>2, SameDeliveries DEF CreatePending, Early, TypeOK, RequestTypes, procVars, On,
       Live, RunTypes, Procs
  <2>3. ASSUME NEW e \in Docs, Enqueue(e) PROVE DeliveryInv'
    BY <2>3, Publication DEF Enqueue, procVars
  <2>4. ASSUME NEW e \in Docs, EnqueueFails(e) PROVE DeliveryInv'
    <3>1. CASE UNCHANGED queued
      <4>1. /\ \A f \in Docs : request'[f] \in Early => request[f] \in Early
            /\ \A p \in Procs, f \in Docs : (On(p, f)' => On(p, f)) /\ (Live(p, f)' => Live(p, f))
        BY <2>4 DEF EnqueueFails, procVars, On, Live, Early, TypeOK, RequestTypes
      <4>2. QED
        BY <3>1, <4>1, SameDeliveries
    <3>2. CASE Publish(e, 0)
      BY <2>4, <3>2, Publication DEF EnqueueFails, procVars
    <3>3. QED
      BY <2>4, <3>1, <3>2 DEF EnqueueFails
  <2>5. ASSUME NEW e \in Docs, MarkEnqueueFailure(e) PROVE DeliveryInv'
    BY <2>5, SameDeliveries DEF MarkEnqueueFailure, Early, TypeOK, RequestTypes, procVars, On,
       Live, RunTypes, Procs
  <2>6. ASSUME NEW e \in Docs, RequestDies(e) PROVE DeliveryInv'
    BY <2>6, SameDeliveries DEF RequestDies, Early, TypeOK, RequestTypes, procVars, On, Live,
       RunTypes, Procs
  <2>7. ASSUME NEW e \in Docs, NEW p \in ApiThreads, IngestInline(e, p) PROVE DeliveryInv'
    <3>1. NotStarted(e)
      BY <2>7 DEF IngestInline, DeliveryInv, StartsOnce
    <3>2. \A q \in Procs, f \in Docs :
            On(q, f)' => (q = p /\ f = e) \/ (On(q, f) /\ f # e /\ at'[q] = at[q])
      BY <2>7, <3>1 DEF IngestInline, NotStarted, On, TypeOK, RunTypes, Procs
    <3>3. StartsOnce'
      BY <2>7, <3>2 DEF IngestInline, DeliveryInv, StartsOnce, NotStarted, TypeOK, RequestTypes
    <3>4. OneMessage'
      BY <2>7, <3>1, <3>2 DEF IngestInline, DeliveryInv, OneMessage, NotStarted, Live
    <3>5. OneRun'
      BY <2>7, <3>2 DEF DeliveryInv, OneRun, Live
    <3>6. QED
      BY <3>3, <3>4, <3>5 DEF DeliveryInv
  <2>8. ASSUME NEW p \in Procs, Load(p) PROVE DeliveryInv'
    BY <2>8, SameDeliveries DEF Load, envVars, Early, On, Live, TypeOK, RunTypes, Procs
  <2>9. ASSUME NEW p \in Procs, Prepare(p) PROVE DeliveryInv'
    BY <2>9, SameDeliveries DEF Prepare, envVars, Early, Go, On, Live, TypeOK, RunTypes, Procs
  <2>10. ASSUME NEW p \in Procs, OpenReplace(p) \/ DeleteChunks(p) PROVE DeliveryInv'
    BY <2>10, SameDeliveries DEF OpenReplace, DeleteChunks, envVars, Early, Go, On, Live, TypeOK, RunTypes,
       Procs
  <2>11. ASSUME NEW p \in Procs, CommitReplace(p) PROVE DeliveryInv'
    BY <2>11, SameDeliveries DEF CommitReplace, envVars, Early, Go, On, Live, TypeOK,
       RunTypes, Procs
  <2>12. ASSUME NEW p \in Procs, ClearPoints(p) PROVE DeliveryInv'
    BY <2>12, SameDeliveries DEF ClearPoints, envVars, Early, Go, ErrorPlaces, On, Live,
       TypeOK, RunTypes, Procs
  <2>13. ASSUME NEW p \in Procs, UpsertPoints(p) PROVE DeliveryInv'
    BY <2>13, SameDeliveries DEF UpsertPoints, envVars, Early, Go, ErrorPlaces, On, Live,
       TypeOK, RunTypes, Procs
  <2>14. ASSUME NEW p \in Procs, FinishReady(p) PROVE DeliveryInv'
    BY <2>14, SameDeliveries DEF FinishReady, envVars, Early, Go, On, Live, TypeOK, RunTypes,
       Procs
  <2>15. ASSUME NEW p \in Procs, Reread(p) PROVE DeliveryInv'
    BY <2>15, SameDeliveries DEF Reread, envVars, Early, Go, On, Live, TypeOK, RunTypes, Procs
  <2>16. ASSUME NEW p \in Procs, FinishFailed(p) PROVE DeliveryInv'
    BY <2>16, SameDeliveries DEF FinishFailed, envVars, Early, Go, On, Live, TypeOK, RunTypes,
       Procs
  <2>17. ASSUME NEW p \in Procs, DatabaseRaises(p) PROVE DeliveryInv'
    BY <2>17, SameDeliveries DEF DatabaseRaises, envVars, Early, Go, On, Live, TypeOK,
       RunTypes, Procs
  <2>18. ASSUME NEW w \in Workers, NEW e \in Docs, NEW n \in Attempts, Receive(w, e, n) PROVE DeliveryInv'
    <3>1. /\ \A m \in Attempts : queued'[e][m] = 0
          /\ \A f \in Docs : f # e => queued'[f] = queued[f]
      <4>1. queued[e] \in [Attempts -> Nat]
        BY DEF TypeOK, QueueType
      <4>2. queued[e][n] = 1 /\ \A m \in Attempts : queued[e][m] > 0 => m = n
        BY <2>18 DEF Receive, DeliveryInv, OneMessage
      <4>3. queued'[e] = [queued[e] EXCEPT ![n] = 0]
        BY <2>18, <4>1, <4>2 DEF Receive, TypeOK, QueueType
      <4>4. QED
        BY <2>18, <4>1, <4>2, <4>3 DEF Receive, TypeOK, QueueType
    <3>2. \A q \in Procs : ~Live(q, e)
      BY <2>18 DEF Receive, DeliveryInv, OneMessage
    <3>3. \A q \in Procs, f \in Docs :
            On(q, f)' => (q = w /\ f = e) \/ (On(q, f) /\ at'[q] = at[q])
      BY <2>18 DEF Receive, Go, On, TypeOK, RunTypes, Procs
    <3>4. StartsOnce'
      <4>1. request[e] \notin {"none", "stored", "committed"}
        BY <2>18 DEF Receive, DeliveryInv, StartsOnce, NotStarted
      <4>2. QED
        BY <2>18, <3>1, <3>3, <4>1 DEF Receive, envVars, DeliveryInv, StartsOnce, NotStarted
    <3>5. OneMessage'
      BY <3>1, <3>3 DEF DeliveryInv, OneMessage, Live
    <3>6. OneRun'
      BY <3>2, <3>3 DEF DeliveryInv, OneRun, Live
    <3>7. QED
      BY <3>4, <3>5, <3>6 DEF DeliveryInv
  <2>19. ASSUME NEW w \in Workers, Autoretry(w) PROVE DeliveryInv'
    <3> DEFINE e == job[w]
               m == attempt[w] + 1
    <3>1. e \in Docs /\ m \in Attempts /\ Live(w, e) /\ Publish(e, m)
      BY <2>19 DEF Autoretry, Go, Live, On, Attempts, Procs, TypeOK, RunTypes
    <3>2. \A q \in Procs, f \in Docs :
            /\ On(q, f)' => On(q, f)
            /\ Live(q, f)' => Live(q, f) /\ f # e
      BY <2>19, <3>1 DEF Autoretry, Go, On, Live, TypeOK, RunTypes, DeliveryInv, OneRun, Procs
    <3>3. \A k \in Attempts : queued[e][k] = 0
      BY <3>1 DEF DeliveryInv, OneMessage, TypeOK, QueueType, Procs
    <3>4. request[e] \notin {"none", "stored", "committed"}
      BY <3>1 DEF DeliveryInv, StartsOnce, NotStarted, Live, Procs
    <3>5. QED
      BY <2>19, <3>1, <3>2, <3>3, <3>4, Republication DEF Autoretry, envVars
  <2>20. ASSUME NEW w \in Workers, RetriesExhausted(w) PROVE DeliveryInv'
    BY <2>20, SameDeliveries DEF RetriesExhausted, envVars, Early, Go, On, Live, TypeOK,
       RunTypes, Procs
  <2>21. ASSUME NEW w \in Workers, OnFailure(w) PROVE DeliveryInv'
    BY <2>21, SameDeliveries DEF OnFailure, envVars, Early, Go, On, Live, TypeOK, RunTypes,
       Procs
  <2>22. ASSUME NEW w \in Workers, Ack(w) PROVE DeliveryInv'
    BY <2>22, SameDeliveries DEF Ack, envVars, Early, Go, Release, On, Live, TypeOK, RunTypes,
       Procs
  <2>23. ASSUME NEW w \in Workers, WorkerCrash(w) PROVE DeliveryInv'
    BY <2>23 DEF WorkerCrash
  <2>24. ASSUME NEW w \in Workers, Redeliver(w) PROVE DeliveryInv'
    BY <2>24 DEF Redeliver
  <2>25. ASSUME NEW p \in ApiThreads \cup CliThreads, InlineEnds(p) PROVE DeliveryInv'
    BY <2>25, SameDeliveries DEF InlineEnds, Early, Release, On, Live, TypeOK, RunTypes, Procs
  <2>26. ASSUME NEW p \in ApiThreads \cup CliThreads, InlineDies(p) PROVE DeliveryInv'
    BY <2>26, SameDeliveries DEF InlineDies, Early, Release, On, Live, TypeOK, RunTypes, Procs
  <2>27. ASSUME NEW e \in Docs, DeletePoints(e) PROVE DeliveryInv'
    BY <2>27, SameDeliveries DEF DeletePoints, Early, procVars, On, Live, TypeOK, RunTypes,
       Procs
  <2>28. ASSUME NEW e \in Docs, DeleteRow(e) PROVE DeliveryInv'
    BY <2>28, SameDeliveries DEF DeleteRow, Early, procVars, On, Live, TypeOK, RunTypes, Procs
  <2>29. ASSUME NEW e \in Docs, DeleteAborted(e) PROVE DeliveryInv'
    BY <2>29, SameDeliveries DEF DeleteAborted, Early, procVars, On, Live, TypeOK, RunTypes,
       Procs
  <2>30. ASSUME NEW e \in Docs, DeleteFile(e) PROVE DeliveryInv'
    BY <2>30, SameDeliveries DEF DeleteFile, Early, procVars, On, Live, TypeOK, RunTypes,
       Procs
  <2>31. ASSUME NEW S \in SUBSET Docs, ListStale(S) PROVE DeliveryInv'
    BY <2>31, SameDeliveries DEF ListStale, Early, procVars, On, Live, TypeOK, RunTypes, Procs
  <2>32. ASSUME NEW e \in Docs, PlanRecovery(e) PROVE DeliveryInv'
    BY <2>32, SameDeliveries DEF PlanRecovery, Early, procVars, On, Live, TypeOK, RunTypes,
       Procs
  <2>33. CASE ApplyMarkReady
    BY <2>33, SameDeliveries DEF ApplyMarkReady, Early, procVars, On, Live, TypeOK, RunTypes,
       Procs
  <2>34. ASSUME NEW p \in CliThreads, ApplyReingest(p) PROVE DeliveryInv'
    BY <2>34 DEF ApplyReingest
  <2>35. CASE ApplyNothing
    BY <2>35, SameDeliveries DEF ApplyNothing, Early, procVars, On, Live, TypeOK, RunTypes,
       Procs
  <2>36. CASE CliDies
    BY <2>36, SameDeliveries DEF CliDies, Early, procVars, On, Live, TypeOK, RunTypes, Procs
  <2>37. CASE UNCHANGED vars
    BY <2>37 DEF vars, DeliveryInv, StartsOnce, NotStarted, OneMessage, OneRun, On, Live
  <2>38. QED
    BY <2>1, <2>2, <2>3, <2>4, <2>5, <2>6, <2>7, <2>8, <2>9, <2>10, <2>11, <2>12, <2>13,
       <2>14, <2>15, <2>16, <2>17, <2>18, <2>19, <2>20, <2>21, <2>22, <2>23, <2>24, <2>25,
       <2>26, <2>27, <2>28, <2>29, <2>30, <2>31, <2>32, <2>33, <2>34, <2>35, <2>36, <2>37 DEF
       Next, UploadNext, IngestNext, TaskNext, FaultNext, DeleteNext, CliStep

(***************************************************************************)
(* A document is ingested by one run at a time, as long as no worker is    *)
(* lost and no held message is delivered again: retries hand over.         *)
(***************************************************************************)
THEOREM RunsDoNotOverlap ==
  ASSUME DeliveredOnce
  PROVE  Spec => []NoOverlap
<1>1. Init => DeliveryInv
  BY DEF Init, DeliveryInv, StartsOnce, NotStarted, OneMessage, OneRun, On, Live
<1>2. TypeOK /\ DeliveryInv /\ [Next]_vars => DeliveryInv'
  BY DeliveryStep
<1>3. TypeOK /\ DeliveryInv => NoOverlap
  BY DEF DeliveryInv, OneRun, NoOverlap, Live
<1>4. QED
  BY <1>1, <1>2, <1>3, TypeCorrect, PTL DEF Spec
-----------------------------------------------------------------------------
(***************************************************************************)
(* One step keeps what is known of the index: only the live run of a       *)
(* document touches it, and it has nothing left to touch once the row says *)
(* that it was synced.                                                     *)
(***************************************************************************)
LEMMA IndexStep ==
  ASSUME DeliveredOnce, DeletesComplete, TypeOK, DeliveryInv, IndexInv, [Next]_vars
  PROVE  IndexInv'
<1>1. QED
  <2> USE ConstantsAssumption DEF DeliveredOnce, DeletesComplete
  <2>1. ASSUME NEW e \in Docs, StoreUpload(e) PROVE IndexInv'
    <3>1. UNCHANGED <<rowVars, points, queued, procVars, deletion, cli>>
      BY <2>1 DEF StoreUpload
    <3>2. SyncedHasIndex' /\ ReadyIsSynced' /\ RunHasIndex' /\ PlanIsCurrent'
      BY <3>1 DEF rowVars, procVars, IndexInv, SyncedHasIndex, ReadyIsSynced, RunHasIndex, PlanIsCurrent,
         HasRow, On
    <3>3. /\ request[e] = "none" /\ request'[e] \in {"stored", "done"}
          /\ \A f \in Docs : f # e => request'[f] = request[f]
      BY <2>1 DEF StoreUpload, TypeOK, RequestTypes
    <3>4. RowAfterRequest' /\ SyncedIsOver'
      BY <3>1, <3>3 DEF rowVars, procVars, IndexInv, RowAfterRequest, SyncedIsOver, On
    <3>5. QED
      BY <3>2, <3>4 DEF IndexInv
  <2>2. ASSUME NEW e \in Docs, CreatePending(e) PROVE IndexInv'
    <3>1. SyncedHasIndex'
      BY <2>2 DEF CreatePending, procVars, budgetVars, IndexInv, SyncedHasIndex
    <3>2. RowAfterRequest'
      BY <2>2 DEF CreatePending, procVars, budgetVars, IndexInv, RowAfterRequest, HasRow,
         RowStatuses, TypeOK, RowTypes, RequestTypes
    <3>3. SyncedIsOver'
      BY <2>2 DEF CreatePending, procVars, budgetVars, IndexInv, SyncedIsOver, On, TypeOK,
         RowTypes, RequestTypes, QueueType, RunTypes, Procs
    <3>4. ReadyIsSynced'
      BY <2>2 DEF CreatePending, procVars, budgetVars, IndexInv, ReadyIsSynced, HasRow,
         RowStatuses, TypeOK, RowTypes
    <3>5. RunHasIndex'
      BY <2>2 DEF CreatePending, procVars, IndexInv, RunHasIndex, RowAfterRequest, DeliveryInv,
         StartsOnce, NotStarted, On, HasRow, RowStatuses, TypeOK, RowTypes
    <3>6. PlanIsCurrent'
      BY <2>2 DEF CreatePending, IndexInv, PlanIsCurrent, RowAfterRequest, SyncedIsOver, TypeOK,
         RowTypes, CliType
    <3>7. QED
      BY <3>1, <3>2, <3>3, <3>4, <3>5, <3>6 DEF IndexInv
  <2>3. ASSUME NEW e \in Docs, Enqueue(e) PROVE IndexInv'
    BY <2>3 DEF Enqueue, Publish, rowVars, procVars, budgetVars, IndexInv, RowAfterRequest,
       SyncedIsOver, SyncedHasIndex, ReadyIsSynced, RunHasIndex, PlanIsCurrent, HasRow,
       RowStatuses, On, TypeOK, RowTypes, RequestTypes, QueueType, RunTypes
  <2>4. ASSUME NEW e \in Docs, EnqueueFails(e) PROVE IndexInv'
    BY <2>4 DEF EnqueueFails, Publish, rowVars, procVars, budgetVars, IndexInv,
       RowAfterRequest, SyncedIsOver, SyncedHasIndex, ReadyIsSynced, RunHasIndex,
       PlanIsCurrent, HasRow, RowStatuses, On, TypeOK, RowTypes, RequestTypes, QueueType,
       RunTypes
  <2>5. ASSUME NEW e \in Docs, MarkEnqueueFailure(e) PROVE IndexInv'
    BY <2>5 DEF MarkEnqueueFailure, MarkFailed, HasRow, RowStatuses, procVars, budgetVars,
       IndexInv, RowAfterRequest, SyncedIsOver, SyncedHasIndex, ReadyIsSynced, RunHasIndex,
       PlanIsCurrent, On, TypeOK, RowTypes, RequestTypes, QueueType, RunTypes, DataTypes,
       CliType
  <2>6. ASSUME NEW e \in Docs, RequestDies(e) PROVE IndexInv'
    BY <2>6 DEF RequestDies, rowVars, procVars, budgetVars, IndexInv, RowAfterRequest,
       SyncedIsOver, SyncedHasIndex, ReadyIsSynced, RunHasIndex, PlanIsCurrent, HasRow,
       RowStatuses, On, TypeOK, RowTypes, RequestTypes, QueueType, RunTypes
  <2>7. ASSUME NEW e \in Docs, NEW p \in ApiThreads, IngestInline(e, p) PROVE IndexInv'
    BY <2>7 DEF IngestInline, rowVars, budgetVars, IndexInv, RowAfterRequest, SyncedIsOver,
       SyncedHasIndex, ReadyIsSynced, RunHasIndex, PlanIsCurrent, HasRow, RowStatuses, On,
       TypeOK, RowTypes, RequestTypes, QueueType, RunTypes, DataTypes, Procs
  <2>8. ASSUME NEW p \in Procs, Load(p) PROVE IndexInv'
    BY <2>8 DEF Load, HasRow, RowStatuses, MarkProcessing, envVars, budgetVars, IndexInv,
       RowAfterRequest, SyncedIsOver, SyncedHasIndex, ReadyIsSynced, RunHasIndex,
       PlanIsCurrent, On, TypeOK, RowTypes, RequestTypes, QueueType, RunTypes, DataTypes,
       CliType, Procs
  <2>9. ASSUME NEW p \in Procs, Prepare(p) PROVE IndexInv'
    <3>1. RowAfterRequest' /\ SyncedHasIndex' /\ ReadyIsSynced' /\ PlanIsCurrent'
      BY <2>9 DEF Prepare, rowVars, envVars, budgetVars, IndexInv, RowAfterRequest,
         SyncedHasIndex, ReadyIsSynced, PlanIsCurrent, HasRow, RowStatuses
    <3>2. SyncedIsOver'
      <4>1. \A q \in Procs : at'[q] # at[q] => q = p /\ at[q] = "prepare"
        BY <2>9 DEF Prepare, Go, TypeOK, RunTypes
      <4>2. UNCHANGED <<synced, request, queued, job>>
        BY <2>9 DEF Prepare, rowVars, envVars
      <4>3. \A f \in Docs, q \in Procs : On(q, f)' => job[q] = f /\ (at[q] # at'[q] \/ On(q, f))
        BY <4>2 DEF On
      <4>4. \A f \in Docs : synced[f] => ~On(p, f) \/ at[p] # "prepare"
        BY DEF IndexInv, SyncedIsOver
      <4>5. QED
        BY <4>1, <4>2, <4>3, <4>4 DEF IndexInv, SyncedIsOver, On
    <3>3. RunHasIndex'
      <4> SUFFICES ASSUME NEW f \in Docs, NEW q \in Procs, On(q, f)', HasRow(f)',
                          at'[q] \in {"clearPoints", "upsert", "markReady"}
                   PROVE  /\ chunks'[f] = "pending"
                          /\ at'[q] = "markReady" /\ deletion'[f] = "none" => points'[f]
        BY DEF RunHasIndex
      <4>1. at'[q] = at[q] /\ job' = job
        BY <2>9 DEF Prepare, Go, TypeOK, RunTypes, Procs
      <4>2. On(q, f) /\ HasRow(f) /\ UNCHANGED <<chunks, points, deletion>>
        BY <2>9, <4>1 DEF Prepare, On, HasRow, rowVars, envVars
      <4>3. QED
        BY <4>1, <4>2 DEF IndexInv, RunHasIndex
    <3>4. QED
      BY <3>1, <3>2, <3>3 DEF IndexInv
  <2>10. ASSUME NEW p \in Procs, OpenReplace(p) \/ DeleteChunks(p) PROVE IndexInv'
    <3>1. PICK from \in {"replace", "deleting"}, to \in {"deleting", "replacing"} : Go(p, from, to)
      BY <2>10 DEF OpenReplace, DeleteChunks
    <3>2. UNCHANGED <<rowVars, points, queued, job, request, deletion, cli>>
      BY <2>10 DEF OpenReplace, DeleteChunks, rowVars, envVars
    <3>3. RowAfterRequest' /\ SyncedHasIndex' /\ ReadyIsSynced' /\ PlanIsCurrent'
      BY <3>2 DEF rowVars, IndexInv, RowAfterRequest, SyncedHasIndex, ReadyIsSynced, PlanIsCurrent
    <3>4. SyncedIsOver' /\ RunHasIndex'
      BY <3>1, <3>2 DEF rowVars, Go, IndexInv, SyncedIsOver, RunHasIndex, HasRow, On, TypeOK, RunTypes
    <3>5. QED
      BY <3>3, <3>4 DEF IndexInv
  <2>11. ASSUME NEW p \in Procs, CommitReplace(p) PROVE IndexInv'
    <3>1. RowAfterRequest' /\ ReadyIsSynced' /\ PlanIsCurrent'
      BY <2>11 DEF CommitReplace, envVars, budgetVars, IndexInv, RowAfterRequest,
         ReadyIsSynced, PlanIsCurrent, HasRow, RowStatuses
    <3>2. SyncedIsOver'
      <4>1. \A q \in Procs : at'[q] # at[q] => q = p /\ at[q] = "replacing"
        BY <2>11 DEF CommitReplace, Go, TypeOK, RunTypes
      <4>2. UNCHANGED <<synced, request, queued, job>>
        BY <2>11 DEF CommitReplace, envVars
      <4>3. \A f \in Docs, q \in Procs :
              On(q, f)' => at[q] # "idle" /\ job[q] = f
        BY <4>1, <4>2 DEF On
      <4>4. QED
        BY <4>1, <4>2, <4>3 DEF IndexInv, SyncedIsOver, On
    <3>3. SyncedHasIndex'
      <4>1. job[p] \in Docs /\ ~synced[job[p]]
        BY <2>11 DEF CommitReplace, Go, On, IndexInv, SyncedIsOver, TypeOK, RunTypes
      <4>2. QED
        BY <2>11, <4>1 DEF CommitReplace, IndexInv, SyncedHasIndex, envVars, TypeOK, RowTypes
    <3>4. RunHasIndex'
      BY <2>11 DEF CommitReplace, HasRow, RowStatuses, Go, Procs, envVars, budgetVars,
         IndexInv, RunHasIndex, On, TypeOK, RowTypes, RequestTypes, DataTypes, RunTypes
    <3>5. QED
      BY <3>1, <3>2, <3>3, <3>4 DEF IndexInv
  <2>12. ASSUME NEW p \in Procs, ClearPoints(p) PROVE IndexInv'
    <3>1. RowAfterRequest' /\ ReadyIsSynced' /\ PlanIsCurrent'
      BY <2>12 DEF ClearPoints, rowVars, envVars, budgetVars, IndexInv, RowAfterRequest,
         ReadyIsSynced, PlanIsCurrent, HasRow, RowStatuses
    <3>2. SyncedIsOver'
      BY <2>12 DEF ClearPoints, Go, ErrorPlaces, rowVars, envVars, budgetVars, IndexInv,
         SyncedIsOver, On, TypeOK, RowTypes, RequestTypes, QueueType, RunTypes, Procs
    <3>3. SyncedHasIndex'
      <4>1. job[p] \in Docs /\ ~synced[job[p]]
        BY <2>12 DEF ClearPoints, Go, On, IndexInv, SyncedIsOver, TypeOK, RunTypes
      <4>2. \A f \in Docs : f # job[p] => points'[f] = points[f]
        BY <2>12 DEF ClearPoints, TypeOK, DataTypes
      <4>3. QED
        BY <2>12, <4>1, <4>2 DEF ClearPoints, IndexInv, SyncedHasIndex, rowVars, envVars
    <3>4. RunHasIndex'
      <4>1. PICK to \in {"upsert", "markFailed", "retry"} : Go(p, "clearPoints", to)
        BY <2>12 DEF ClearPoints, ErrorPlaces
      <4>2. \A f \in Docs : f # job[p] => points'[f] = points[f]
        BY <2>12 DEF ClearPoints, TypeOK, DataTypes
      <4>3. \A q \in Procs : at[q] = "markReady" => job[q] # job[p]
        BY <2>12 DEF ClearPoints, Go, DeliveryInv, OneRun, Live, On, TypeOK, RunTypes
      <4>4. QED
        BY <2>12, <4>1, <4>2, <4>3
        DEF ClearPoints, Go, IndexInv, RunHasIndex, On, HasRow, rowVars, envVars, TypeOK, RunTypes
    <3>5. QED
      BY <3>1, <3>2, <3>3, <3>4 DEF IndexInv
  <2>13. ASSUME NEW p \in Procs, UpsertPoints(p) PROVE IndexInv'
    <3>1. RowAfterRequest' /\ ReadyIsSynced' /\ PlanIsCurrent'
      BY <2>13 DEF UpsertPoints, rowVars, envVars, budgetVars, IndexInv, RowAfterRequest,
         ReadyIsSynced, PlanIsCurrent, HasRow, RowStatuses
    <3>2. SyncedIsOver'
      BY <2>13 DEF UpsertPoints, Go, ErrorPlaces, rowVars, envVars, budgetVars, IndexInv,
         SyncedIsOver, On, TypeOK, RowTypes, RequestTypes, QueueType, RunTypes, Procs
    <3>3. SyncedHasIndex'
      BY <2>13 DEF UpsertPoints, Go, ErrorPlaces, rowVars, envVars, budgetVars, IndexInv,
         SyncedHasIndex, TypeOK, RowTypes, RequestTypes, DataTypes
    <3>4. RunHasIndex'
      BY <2>13 DEF UpsertPoints, Go, ErrorPlaces, rowVars, envVars, budgetVars, IndexInv,
         RunHasIndex, On, HasRow, RowStatuses, TypeOK, RowTypes, RequestTypes, DataTypes,
         RunTypes, Procs
    <3>5. QED
      BY <3>1, <3>2, <3>3, <3>4 DEF IndexInv
  <2>14. ASSUME NEW p \in Procs, FinishReady(p) PROVE IndexInv'
    <3>1. RowAfterRequest'
      BY <2>14 DEF FinishReady, Go, MarkReady, HasRow, RowStatuses, envVars, budgetVars,
         IndexInv, RowAfterRequest, TypeOK, RowTypes, RequestTypes
    <3>2. SyncedIsOver'
      <4> DEFINE e == job[p]
      <4>1. e \in Docs /\ Live(p, e) /\ at[p] = "markReady"
        BY <2>14 DEF FinishReady, Go, Live, On, TypeOK, RunTypes
      <4>2. request[e] \in {"enqueueFailed", "refused", "died", "done"}
        BY <4>1 DEF DeliveryInv, StartsOnce, NotStarted, Live, TypeOK, RequestTypes
      <4>3. \A n \in Attempts : queued[e][n] = 0
        BY <4>1 DEF DeliveryInv, OneMessage, TypeOK, QueueType
      <4>4. \A q \in Procs : On(q, e) => at'[q] \in {"reread", "raised", "ack"}
        BY <2>14, <4>1 DEF FinishReady, Go, DeliveryInv, OneRun, Live, TypeOK, RunTypes
      <4>5. \A f \in Docs : f # e => synced'[f] = synced[f]
        BY <2>14 DEF FinishReady, MarkReady, TypeOK, RowTypes
      <4>6. \A q \in Procs, f \in Docs : f # e /\ On(q, f) => at'[q] = at[q]
        BY <2>14 DEF FinishReady, Go, On, TypeOK, RunTypes
      <4>7. \A q \in Procs, f \in Docs : On(q, f)' => On(q, f)
        BY <2>14, <4>1 DEF FinishReady, Go, On, Live, TypeOK, RunTypes
      <4>8. QED
        BY <2>14, <4>2, <4>3, <4>4, <4>5, <4>6, <4>7 DEF FinishReady, IndexInv, SyncedIsOver, envVars
    <3>3. SyncedHasIndex'
      <4> DEFINE e == job[p]
      <4>1. e \in Docs /\ Live(p, e) /\ at[p] = "markReady"
        BY <2>14 DEF FinishReady, Go, Live, On, TypeOK, RunTypes
      <4>2. \A f \in Docs : f # e => synced'[f] = synced[f] /\ chunks'[f] = chunks[f]
        BY <2>14 DEF FinishReady, MarkReady, TypeOK, RowTypes
      <4>3. synced'[e] /\ deletion[e] = "none" => chunks'[e] = "embedded" /\ points[e]
        BY <2>14, <4>1 DEF FinishReady, MarkReady, IndexInv, RunHasIndex, Live, TypeOK, RowTypes
      <4>4. QED
        BY <2>14, <4>2, <4>3 DEF FinishReady, IndexInv, SyncedHasIndex, envVars
    <3>4. ReadyIsSynced'
      BY <2>14 DEF FinishReady, Go, MarkReady, HasRow, RowStatuses, envVars, budgetVars,
         IndexInv, ReadyIsSynced, TypeOK, RowTypes
    <3>5. RunHasIndex'
      <4> DEFINE e == job[p]
      <4>1. e \in Docs /\ Live(p, e) /\ at[p] = "markReady"
        BY <2>14 DEF FinishReady, Go, Live, On, TypeOK, RunTypes
      <4>2. \A q \in Procs : On(q, e)' => at'[q] \in {"reread", "ack"}
        BY <2>14, <4>1 DEF FinishReady, Go, DeliveryInv, OneRun, Live, On, TypeOK, RunTypes
      <4>3. \A q \in Procs, f \in Docs : f # e /\ On(q, f)' => On(q, f) /\ at'[q] = at[q]
        BY <2>14, <4>1 DEF FinishReady, Go, On, TypeOK, RunTypes
      <4>4. \A f \in Docs : f # e => status'[f] = status[f] /\ chunks'[f] = chunks[f]
        BY <2>14 DEF FinishReady, MarkReady, TypeOK, RowTypes
      <4>5. QED
        BY <2>14, <4>2, <4>3, <4>4 DEF FinishReady, IndexInv, RunHasIndex, HasRow, envVars
    <3>6. PlanIsCurrent'
      <4> DEFINE e == job[p]
      <4>1. e \in Docs /\ Live(p, e) /\ at[p] = "markReady"
        BY <2>14 DEF FinishReady, Go, Live, On, TypeOK, RunTypes
      <4>2. ~synced[e]
        BY <4>1 DEF IndexInv, SyncedIsOver, Live
      <4>3. QED
        BY <2>14, <4>1, <4>2 DEF FinishReady, MarkReady, IndexInv, PlanIsCurrent, HasRow, RowStatuses,
           envVars, TypeOK, RowTypes, CliType
    <3>7. QED
      BY <3>1, <3>2, <3>3, <3>4, <3>5, <3>6 DEF IndexInv
  <2>15. ASSUME NEW p \in Procs, Reread(p) PROVE IndexInv'
    BY <2>15 DEF Reread, Go, rowVars, envVars, budgetVars, IndexInv, RowAfterRequest,
       SyncedIsOver, SyncedHasIndex, ReadyIsSynced, RunHasIndex, PlanIsCurrent, HasRow,
       RowStatuses, On, TypeOK, RowTypes, RequestTypes, QueueType, RunTypes, DataTypes, Procs
  <2>16. ASSUME NEW p \in Procs, FinishFailed(p) PROVE IndexInv'
    BY <2>16 DEF FinishFailed, Go, MarkFailed, HasRow, RowStatuses, envVars, budgetVars,
       IndexInv, RowAfterRequest, SyncedIsOver, SyncedHasIndex, ReadyIsSynced, RunHasIndex,
       PlanIsCurrent, On, TypeOK, RowTypes, RequestTypes, QueueType, RunTypes, DataTypes,
       CliType, Procs
  <2>17. ASSUME NEW p \in Procs, DatabaseRaises(p) PROVE IndexInv'
    <3>1. RowAfterRequest' /\ SyncedHasIndex' /\ ReadyIsSynced' /\ PlanIsCurrent'
      BY <2>17 DEF DatabaseRaises, rowVars, envVars, budgetVars, IndexInv, RowAfterRequest,
         SyncedHasIndex, ReadyIsSynced, PlanIsCurrent, HasRow, RowStatuses
    <3>2. SyncedIsOver'
      <4>1. /\ at'[p] \in {"raised", "ack"}
            /\ \A q \in Procs : q # p => at'[q] = at[q]
            /\ at[p] # "idle"
        BY <2>17 DEF DatabaseRaises, Go, TypeOK, RunTypes
      <4>2. QED
        BY <2>17, <4>1 DEF DatabaseRaises, IndexInv, SyncedIsOver, On, rowVars, envVars
    <3>3. RunHasIndex'
      BY <2>17 DEF DatabaseRaises, Go, rowVars, envVars, budgetVars, IndexInv, RunHasIndex,
         On, HasRow, RowStatuses, TypeOK, RowTypes, RequestTypes, DataTypes, RunTypes, Procs
    <3>4. QED
      BY <3>1, <3>2, <3>3 DEF IndexInv
  <2>18. ASSUME NEW w \in Workers, NEW e \in Docs, NEW n \in Attempts, Receive(w, e, n) PROVE IndexInv'
    BY <2>18 DEF Receive, Go, rowVars, envVars, budgetVars, IndexInv, RowAfterRequest,
       SyncedIsOver, SyncedHasIndex, ReadyIsSynced, RunHasIndex, PlanIsCurrent, HasRow,
       RowStatuses, On, TypeOK, RowTypes, RequestTypes, QueueType, RunTypes, DataTypes, Procs
  <2>19. ASSUME NEW w \in Workers, Autoretry(w) PROVE IndexInv'
    <3>1. RowAfterRequest' /\ SyncedHasIndex' /\ ReadyIsSynced' /\ PlanIsCurrent'
      BY <2>19 DEF Autoretry, Publish, rowVars, envVars, budgetVars, IndexInv,
         RowAfterRequest, SyncedHasIndex, ReadyIsSynced, PlanIsCurrent, HasRow, RowStatuses
    <3>2. SyncedIsOver'
      <4>1. w \in Procs /\ at[w] = "retry" /\ job[w] \in Docs /\ ~synced[job[w]]
        BY <2>19 DEF Autoretry, Go, IndexInv, SyncedIsOver, On, TypeOK, RunTypes, Procs
      <4>2. \A q \in Procs : at'[q] # at[q] => q = w
        BY <2>19 DEF Autoretry, Go, TypeOK, RunTypes
      <4>3. \A f \in Docs, n \in Attempts : f # job[w] => queued'[f][n] = queued[f][n]
        BY <2>19 DEF Autoretry, Publish, TypeOK, QueueType
      <4>4. UNCHANGED <<synced, request, job>>
        BY <2>19 DEF Autoretry, rowVars, envVars
      <4>5. \A f \in Docs, q \in Procs : f # job[w] /\ On(q, f)' => at'[q] = at[q] /\ On(q, f)
        BY <4>2, <4>4 DEF On
      <4>6. QED
        BY <4>1, <4>3, <4>4, <4>5 DEF IndexInv, SyncedIsOver
    <3>3. RunHasIndex'
      <4> SUFFICES ASSUME NEW f \in Docs, NEW q \in Procs, On(q, f)', HasRow(f)',
                          at'[q] \in {"clearPoints", "upsert", "markReady"}
                   PROVE  /\ chunks'[f] = "pending"
                          /\ at'[q] = "markReady" /\ deletion'[f] = "none" => points'[f]
        BY DEF RunHasIndex
      <4>1. at'[q] = at[q] /\ job' = job
        BY <2>19 DEF Autoretry, Go, TypeOK, RunTypes, Procs
      <4>2. On(q, f) /\ HasRow(f) /\ UNCHANGED <<chunks, points, deletion>>
        BY <2>19, <4>1 DEF Autoretry, On, HasRow, rowVars, envVars
      <4>3. QED
        BY <4>1, <4>2 DEF IndexInv, RunHasIndex
    <3>4. QED
      BY <3>1, <3>2, <3>3 DEF IndexInv
  <2>20. ASSUME NEW w \in Workers, RetriesExhausted(w) PROVE IndexInv'
    BY <2>20 DEF RetriesExhausted, Go, rowVars, envVars, budgetVars, IndexInv,
       RowAfterRequest, SyncedIsOver, SyncedHasIndex, ReadyIsSynced, RunHasIndex,
       PlanIsCurrent, HasRow, RowStatuses, On, TypeOK, RowTypes, RequestTypes, QueueType,
       RunTypes, DataTypes, Procs
  <2>21. ASSUME NEW w \in Workers, OnFailure(w) PROVE IndexInv'
    BY <2>21 DEF OnFailure, Go, MarkFailed, HasRow, RowStatuses, rowVars, envVars, budgetVars,
       IndexInv, RowAfterRequest, SyncedIsOver, SyncedHasIndex, ReadyIsSynced, RunHasIndex,
       PlanIsCurrent, On, TypeOK, RowTypes, RequestTypes, QueueType, RunTypes, DataTypes,
       CliType, Procs
  <2>22. ASSUME NEW w \in Workers, Ack(w) PROVE IndexInv'
    BY <2>22 DEF Ack, Go, Release, rowVars, envVars, budgetVars, IndexInv, RowAfterRequest,
       SyncedIsOver, SyncedHasIndex, ReadyIsSynced, RunHasIndex, PlanIsCurrent, HasRow,
       RowStatuses, On, TypeOK, RowTypes, RequestTypes, QueueType, RunTypes, DataTypes, Procs
  <2>23. ASSUME NEW w \in Workers, WorkerCrash(w) PROVE IndexInv'
    BY <2>23 DEF WorkerCrash
  <2>24. ASSUME NEW w \in Workers, Redeliver(w) PROVE IndexInv'
    BY <2>24 DEF Redeliver
  <2>25. ASSUME NEW p \in ApiThreads \cup CliThreads, InlineEnds(p) PROVE IndexInv'
    BY <2>25 DEF InlineEnds, Release, CliNext, CliIdle, rowVars, budgetVars, IndexInv,
       RowAfterRequest, SyncedIsOver, SyncedHasIndex, ReadyIsSynced, RunHasIndex,
       PlanIsCurrent, HasRow, RowStatuses, On, TypeOK, RowTypes, RequestTypes, QueueType,
       RunTypes, DataTypes, CliType, Procs
  <2>26. ASSUME NEW p \in ApiThreads \cup CliThreads, InlineDies(p) PROVE IndexInv'
    BY <2>26 DEF InlineDies, CliIdle, Release, rowVars, budgetVars, IndexInv, RowAfterRequest,
       SyncedIsOver, SyncedHasIndex, ReadyIsSynced, RunHasIndex, PlanIsCurrent, HasRow,
       RowStatuses, On, TypeOK, RowTypes, RequestTypes, QueueType, RunTypes, DataTypes,
       CliType, Procs
  <2>27. ASSUME NEW e \in Docs, DeletePoints(e) PROVE IndexInv'
    BY <2>27 DEF DeletePoints, HasRow, RowStatuses, rowVars, procVars, budgetVars, IndexInv,
       RowAfterRequest, SyncedIsOver, SyncedHasIndex, ReadyIsSynced, RunHasIndex,
       PlanIsCurrent, On, TypeOK, RowTypes, RequestTypes, DataTypes, RunTypes
  <2>28. ASSUME NEW e \in Docs, DeleteRow(e) PROVE IndexInv'
    BY <2>28 DEF DeleteRow, Procs, procVars, budgetVars, IndexInv, RowAfterRequest,
       SyncedIsOver, SyncedHasIndex, ReadyIsSynced, RunHasIndex, PlanIsCurrent, HasRow,
       RowStatuses, On, TypeOK, RowTypes, RequestTypes, QueueType, RunTypes, DataTypes,
       CliType
  <2>29. ASSUME NEW e \in Docs, DeleteAborted(e) PROVE IndexInv'
    BY <2>29 DEF DeleteAborted
  <2>30. ASSUME NEW e \in Docs, DeleteFile(e) PROVE IndexInv'
    BY <2>30 DEF DeleteFile, rowVars, procVars, budgetVars, IndexInv, RowAfterRequest,
       SyncedIsOver, SyncedHasIndex, ReadyIsSynced, RunHasIndex, PlanIsCurrent, HasRow,
       RowStatuses, On, TypeOK, RowTypes, RequestTypes, DataTypes, RunTypes
  <2>31. ASSUME NEW S \in SUBSET Docs, ListStale(S) PROVE IndexInv'
    BY <2>31 DEF ListStale, rowVars, procVars, budgetVars, IndexInv, RowAfterRequest,
       SyncedIsOver, SyncedHasIndex, ReadyIsSynced, RunHasIndex, PlanIsCurrent, HasRow,
       RowStatuses, On, TypeOK, RowTypes, CliType
  <2>32. ASSUME NEW e \in Docs, PlanRecovery(e) PROVE IndexInv'
    BY <2>32 DEF PlanRecovery, HasRow, RowStatuses, RecoveryAction, CliIdle, rowVars,
       procVars, budgetVars, IndexInv, RowAfterRequest, SyncedIsOver, SyncedHasIndex,
       ReadyIsSynced, RunHasIndex, PlanIsCurrent, On, TypeOK, RowTypes, CliType
  <2>33. CASE ApplyMarkReady
    <3>1. RowAfterRequest'
      BY <2>33 DEF ApplyMarkReady, MarkReady, HasRow, RowStatuses, procVars, budgetVars,
         IndexInv, RowAfterRequest, TypeOK, RowTypes, RequestTypes
    <3>2. SyncedIsOver'
      <4> DEFINE e == cli.doc
      <4>1. e \in Docs /\ (synced[e] \/ (status[e] = "deleted" /\ ~synced'[e]))
        BY <2>33 DEF ApplyMarkReady, MarkReady, HasRow, RowStatuses, IndexInv, PlanIsCurrent, TypeOK,
           CliType, RowTypes
      <4>2. \A f \in Docs : f # e => synced'[f] = synced[f] /\ chunks'[f] = chunks[f]
                                    /\ status'[f] = status[f]
        BY <2>33 DEF ApplyMarkReady, MarkReady, TypeOK, RowTypes
      <4>3. QED
        BY <2>33, <4>1, <4>2 DEF ApplyMarkReady, IndexInv, SyncedIsOver, On, procVars
    <3>3. SyncedHasIndex'
      <4> DEFINE e == cli.doc
      <4>1. e \in Docs /\ (synced[e] \/ (status[e] = "deleted" /\ ~synced'[e]))
        BY <2>33 DEF ApplyMarkReady, MarkReady, HasRow, RowStatuses, IndexInv, PlanIsCurrent, TypeOK,
           CliType, RowTypes
      <4>2. \A f \in Docs : f # e => synced'[f] = synced[f] /\ chunks'[f] = chunks[f]
                                    /\ status'[f] = status[f]
        BY <2>33 DEF ApplyMarkReady, MarkReady, TypeOK, RowTypes
      <4>3. chunks[e] = "embedded" => chunks'[e] = "embedded"
        BY <2>33 DEF ApplyMarkReady, MarkReady, TypeOK, RowTypes
      <4>4. QED
        BY <2>33, <4>1, <4>2, <4>3 DEF ApplyMarkReady, IndexInv, SyncedHasIndex
    <3>4. ReadyIsSynced'
      BY <2>33 DEF ApplyMarkReady, MarkReady, HasRow, RowStatuses, procVars, budgetVars,
         IndexInv, ReadyIsSynced, TypeOK, RowTypes
    <3>5. RunHasIndex'
      <4> DEFINE e == cli.doc
      <4>1. e \in Docs /\ (synced[e] \/ (status[e] = "deleted" /\ ~synced'[e]))
        BY <2>33 DEF ApplyMarkReady, MarkReady, HasRow, RowStatuses, IndexInv, PlanIsCurrent, TypeOK,
           CliType, RowTypes
      <4>2. \A f \in Docs : f # e => synced'[f] = synced[f] /\ chunks'[f] = chunks[f]
                                    /\ status'[f] = status[f]
        BY <2>33 DEF ApplyMarkReady, MarkReady, TypeOK, RowTypes
      <4>3. \A q \in Procs : On(q, e) /\ synced[e] => at[q] \in {"reread", "raised", "ack"}
        BY <4>1 DEF IndexInv, SyncedIsOver
      <4>4. status[e] = "deleted" => status'[e] = "deleted"
        BY <2>33 DEF ApplyMarkReady, MarkReady, HasRow, RowStatuses, TypeOK, RowTypes
      <4>5. QED
        BY <2>33, <4>1, <4>2, <4>3, <4>4
        DEF ApplyMarkReady, IndexInv, RunHasIndex, On, HasRow, RowStatuses, procVars
    <3>6. PlanIsCurrent'
      BY <2>33 DEF ApplyMarkReady, MarkReady, HasRow, RowStatuses, CliNext, CliIdle, procVars,
         budgetVars, IndexInv, PlanIsCurrent, TypeOK, RowTypes, CliType
    <3>7. QED
      BY <3>1, <3>2, <3>3, <3>4, <3>5, <3>6 DEF IndexInv
  <2>34. ASSUME NEW p \in CliThreads, ApplyReingest(p) PROVE IndexInv'
    BY <2>34 DEF ApplyReingest
  <2>35. CASE ApplyNothing
    BY <2>35 DEF ApplyNothing, CliNext, CliIdle, rowVars, procVars, budgetVars, IndexInv,
       RowAfterRequest, SyncedIsOver, SyncedHasIndex, ReadyIsSynced, RunHasIndex,
       PlanIsCurrent, HasRow, RowStatuses, On, TypeOK, RowTypes, CliType
  <2>36. CASE CliDies
    BY <2>36 DEF CliDies, CliIdle, rowVars, procVars, budgetVars, IndexInv, RowAfterRequest,
       SyncedIsOver, SyncedHasIndex, ReadyIsSynced, RunHasIndex, PlanIsCurrent, HasRow,
       RowStatuses, On, TypeOK, RowTypes, CliType
  <2>37. CASE UNCHANGED vars
    BY <2>37 DEF vars, IndexInv, RowAfterRequest, SyncedIsOver, SyncedHasIndex, ReadyIsSynced,
       RunHasIndex, PlanIsCurrent, On, HasRow
  <2>38. QED
    BY <2>1, <2>2, <2>3, <2>4, <2>5, <2>6, <2>7, <2>8, <2>9, <2>10, <2>11, <2>12, <2>13,
       <2>14, <2>15, <2>16, <2>17, <2>18, <2>19, <2>20, <2>21, <2>22, <2>23, <2>24, <2>25,
       <2>26, <2>27, <2>28, <2>29, <2>30, <2>31, <2>32, <2>33, <2>34, <2>35, <2>36, <2>37 DEF
       Next, UploadNext, IngestNext, TaskNext, FaultNext, DeleteNext, CliStep

(***************************************************************************)
(* A ready document can be retrieved, also with the reconciliation CLI     *)
(* marking documents ready, as long as messages are delivered once and     *)
(* delete requests that took the points take the row.                      *)
(***************************************************************************)
THEOREM ReadyIsIndexed ==
  ASSUME DeliveredOnce, DeletesComplete
  PROVE  Spec => []ReadyIndexed
<1>1. Init => DeliveryInv /\ IndexInv
  <2>1. Init => DeliveryInv
    BY DEF Init, DeliveryInv, StartsOnce, NotStarted, OneMessage, OneRun, On, Live
  <2>2. Init => IndexInv
    BY DEF Init, IndexInv, RowAfterRequest, SyncedIsOver, SyncedHasIndex, ReadyIsSynced,
           RunHasIndex, PlanIsCurrent, On, CliIdle
  <2>3. QED
    BY <2>1, <2>2
<1>2. TypeOK /\ DeliveryInv /\ IndexInv /\ [Next]_vars => DeliveryInv' /\ IndexInv'
  BY DeliveryStep, IndexStep
<1>3. IndexInv => ReadyIndexed
  BY DEF IndexInv, SyncedHasIndex, ReadyIsSynced, ReadyIndexed, Indexed
<1>4. QED
  BY <1>1, <1>2, <1>3, TypeCorrect, PTL DEF Spec
=============================================================================
