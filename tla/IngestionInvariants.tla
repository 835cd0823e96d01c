------------------------ MODULE IngestionInvariants ------------------------
(***************************************************************************)
(* The inductive invariants behind the properties of Ingestion, and the    *)
(* environments in which they hold.                                        *)
(***************************************************************************)
EXTENDS Ingestion

-----------------------------------------------------------------------------
(***************************************************************************)
(* OriginalRetained and LegalStatusChanges, in every environment.          *)
(***************************************************************************)

\* The row comes from its upload request.
RowAfterRequest == \A d \in Docs :
  request[d] \in {"none", "stored"} => status[d] = "absent" /\ deletion[d] = "none"

\* A delete request has its row until it deletes it, and the row does not come back.
DeletionInv == \A d \in Docs :
  /\ deletion[d] = "pointsGone" => HasRow(d)
  /\ deletion[d] \in {"rowGone", "done"} => status[d] = "deleted"

\* Whoever may mark a document ready knows it as processing.
Begun(d) == status[d] \notin {"absent", "pending"}
Building == {"prepare", "replace", "deleting", "replacing", "clearPoints", "upsert",
             "markReady"}
BuildsBegun == \A p \in Procs : at[p] \in Building => Begun(job[p])
PlansBegun == /\ \A d \in cli.todo : Begun(d)
              /\ cli.at = "applying" => Begun(cli.doc)

StatusInv == RowAfterRequest /\ DeletionInv /\ BuildsBegun /\ PlansBegun

\* Only a deleted document loses its file.
StoredFirst == \A d \in Docs : request[d] = "stored" => stored[d]
FileInv == OriginalRetained /\ StoredFirst

-----------------------------------------------------------------------------
(***************************************************************************)
(* NoStranded. The database answers, and only Celery workers run           *)
(* ingest_document; workers and upload requests may die, messages may be   *)
(* delivered again, publishing may fail and the CLI may run.               *)
(***************************************************************************)
CeleryOnly == UseAsync /\ ApiThreads = {} /\ CliThreads = {}
DatabaseAnswers == "dbError" \notin Faults

(***************************************************************************)
(* A run that will resolve its document or pass it on. A run that already  *)
(* did its last write, or whose chunk transaction is bound to fail, is on  *)
(* the document and yet of no use to it.                                   *)
(***************************************************************************)
WillResolve(w, d) ==
  /\ On(w, d)
  /\ \/ at[w] \in {"load", "prepare", "replace", "clearPoints", "upsert", "markReady",
                   "markFailed", "retry"}
     \/ at[w] \in {"deleting", "replacing"} /\ ~clash[w]
     \/ at[w] = "raised" /\ attempt[w] >= MaxRetries

Carried(d) == \/ \E n \in Attempts : queued[d][n] > 0
              \/ \E w \in Workers : WillResolve(w, d)

\* A request that is gone answers for a document no worker has begun, and only for that.
Uploading(d) == request[d] \in {"committed", "enqueueFailed", "died"}

Resolver(d) == /\ status[d] = "processing" => Carried(d)
               /\ status[d] = "pending" => Uploading(d) \/ Carried(d)

ResolverInv == \A d \in Docs : Resolver(d)

-----------------------------------------------------------------------------
(***************************************************************************)
(* NoOverlap. The broker delivers every message once, and no reconciler    *)
(* ingests on its own.                                                     *)
(***************************************************************************)
DeliveredOnce == Faults \cap {"workerCrash", "redelivery"} = {} /\ CliThreads = {}

Live(p, d) == On(p, d) /\ at[p] # "ack"

NotStarted(d) ==
  (\A n \in Attempts : queued[d][n] = 0) /\ (\A p \in Procs : ~On(p, d))

StartsOnce == \A d \in Docs :
  request[d] \in {"none", "stored", "committed"} => NotStarted(d)
OneMessage == \A d \in Docs, n \in Attempts :
  queued[d][n] > 0 => /\ queued[d][n] = 1
                      /\ \A m \in Attempts : queued[d][m] > 0 => m = n
                      /\ \A p \in Procs : ~Live(p, d)
OneRun == \A d \in Docs, p, q \in Procs : Live(p, d) /\ Live(q, d) => p = q

DeliveryInv == StartsOnce /\ OneMessage /\ OneRun

-----------------------------------------------------------------------------
(***************************************************************************)
(* ReadyIndexed. Moreover a delete request that removed the points removes *)
(* the row. The reconciliation CLI may run at any time.                    *)
(***************************************************************************)
DeletesComplete == "deleteAborted" \notin Faults

\* Once a document was synced, whatever is left of its run changes no index.
SyncedIsOver == \A d \in Docs :
  synced[d] => /\ request[d] \in {"enqueueFailed", "refused", "died", "done"}
               /\ \A n \in Attempts : queued[d][n] = 0
               /\ \A p \in Procs : On(p, d) => at[p] \in {"reread", "raised", "ack"}
SyncedHasIndex == \A d \in Docs :
  synced[d] /\ deletion[d] = "none" => chunks[d] = "embedded" /\ points[d]
ReadyIsSynced == \A d \in Docs : status[d] = "ready" => synced[d]

\* What a run has built so far.
RunHasIndex == \A d \in Docs, p \in Procs :
  On(p, d) /\ HasRow(d) =>
    /\ at[p] \in {"clearPoints", "upsert", "markReady"} => chunks[d] = "pending"
    /\ at[p] = "markReady" /\ deletion[d] = "none" => points[d]

\* A plan to mark a document ready is as old as its synced row, or the row is gone.
PlanIsCurrent ==
  cli.at = "applying" /\ cli.action = "MARK_READY" =>
    synced[cli.doc] \/ status[cli.doc] = "deleted"

IndexInv == /\ RowAfterRequest /\ SyncedIsOver /\ SyncedHasIndex
            /\ ReadyIsSynced /\ RunHasIndex /\ PlanIsCurrent

-----------------------------------------------------------------------------
(***************************************************************************)
(* ReadyIndexed once more: now with crashes, redeliveries and publishes of *)
(* doubtful outcome, but with one process that runs ingest_document and no *)
(* CLI. Deliveries of one document then follow each other, and one that    *)
(* begins takes the document out of ready before it touches the index.     *)
(***************************************************************************)
OneProcess == ~Reconcile /\ \A p, q \in Procs : p = q

\* A run that is still to touch the index knows its document as not ready.
BuildsUnready == \A p \in Procs : at[p] \in Building => status[job[p]] # "ready"

SerialInv == BuildsUnready /\ RunHasIndex /\ ReadyIndexed /\ cli = CliIdle

-----------------------------------------------------------------------------
(***************************************************************************)
(* The refinement of DocumentLifecycle. Moreover a publish that raises has *)
(* published nothing, and the database does not fail: a task goes over its *)
(* document once, and what it has decided stays.                           *)
(***************************************************************************)
DecidedOnce == DeliveredOnce /\ DeletesComplete /\ Faults \cap {"enqueueLate", "dbError"} = {}

\* A document whose work is still to begin is not decided.
Ahead(d) == \/ request[d] \in {"committed", "enqueueFailed"}
            \/ \E n \in Attempts : queued[d][n] > 0
            \/ \E p \in Procs : On(p, d) /\ at[p] = "load"
AheadInv == \A d \in Docs : Ahead(d) => status[d] \notin {"ready", "failed"}

\* Neither is one in work; only the end of a run that failed may follow the decision.
WorkInv == \A d \in Docs, p \in Procs : On(p, d) =>
  /\ at[p] \in Building \cup {"retry", "markFailed"} => status[d] \notin {"pending", "ready", "failed"}
  /\ at[p] = "raised" => status[d] \notin {"pending", "ready"}

FailedUnpublished == \A d \in Docs : request[d] = "enqueueFailed" => NotStarted(d)
SyncedIsReady == \A d \in Docs : synced[d] => status[d] = "ready"
ChunksHaveRow == \A d \in Docs : chunks[d] # "none" => HasRow(d)

DecisionInv == AheadInv /\ WorkInv /\ FailedUnpublished /\ SyncedIsReady /\ ChunksHaveRow
=============================================================================
