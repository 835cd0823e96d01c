------------------------------ MODULE Ingestion ------------------------------
(***************************************************************************)
(* Document ingestion: the upload request, the Celery queue and its        *)
(* workers, ingest_document, the delete request and the reconciliation CLI *)
(* over their shared state: the document row and its chunk rows            *)
(* (Postgres), its points (Qdrant) and its stored original (disk).         *)
(*                                                                         *)
(* A document's chunk rows, and its points, are one unit: chunk ids are a  *)
(* function of the document's content (chunking.make_point_id), a commit   *)
(* replaces all rows and a Qdrant request carries all points.              *)
(***************************************************************************)
EXTENDS Integers, FiniteSets

CONSTANTS
  Docs,             \* uploads; each is the document row it may become
  None,             \* the absence of a document
  Workers,          \* Celery worker processes of the "ingestion" queue
  ApiThreads,       \* requests that ingest inline, when USE_ASYNC_INGESTION is off
  CliThreads,       \* runs of ingest_document by a reconciler given an ingestion service
  UseAsync,         \* the setting USE_ASYNC_INGESTION
  Reconcile,        \* an operator runs the reconciliation CLI with --no-dry-run
  MaxRetries,       \* tasks.MAX_RETRIES
  Faults,           \* what may go wrong around the code, see FaultKinds
  MaxCrashes,       \* bound: worker crashes in one behaviour
  MaxRedeliveries   \* bound: broker redeliveries of a message still held

FaultKinds ==
  { "workerCrash",    \* a worker process is lost, its message is requeued
    "redelivery",     \* the broker delivers an unacknowledged message again
    "apiCrash",       \* the API process dies between two steps of a request
    "cliCrash",       \* the reconciliation CLI dies between two steps
    "enqueueLost",    \* send_task raises and nothing was published
    "enqueueLate",    \* send_task raises although the message was published
    "dbError",        \* a database call raises, its transaction has no effect
    "deleteAborted" } \* a delete request ends after its Qdrant call, before its commit

Procs == Workers \cup ApiThreads \cup CliThreads

ASSUME ConstantsAssumption ==
  /\ None \notin Docs
  /\ Workers \cap ApiThreads = {}
  /\ Workers \cap CliThreads = {}
  /\ ApiThreads \cap CliThreads = {}
  /\ UseAsync \in BOOLEAN
  /\ Reconcile \in BOOLEAN
  /\ MaxRetries \in Nat
  /\ Faults \subseteq FaultKinds
  /\ MaxCrashes \in Nat
  /\ MaxRedeliveries \in Nat

VARIABLES
  status,        \* documents.status; "absent" before the row, "deleted" after it
  chunks,        \* document_chunks of the row: none, embedded_at null, embedded_at set
  synced,        \* documents.qdrant_synced_at is set
  points,        \* Qdrant holds the document's points
  stored,        \* the original is on disk
  request,       \* where the upload request of the document is
  queued,        \* messages in the broker: per document and retry count
  at,            \* where each run of ingest_document is
  job,           \* the document it works on
  attempt,       \* request.retries of the delivery it works on
  clash,         \* rows it cannot see were committed since its DELETE was issued
  deletion,      \* where the delete request of the document is
  cli,           \* the reconciliation CLI
  crashes,       \* worker crashes so far
  redeliveries   \* redeliveries so far

rowVars    == <<status, chunks, synced>>
procVars   == <<at, job, attempt, clash>>
budgetVars == <<crashes, redeliveries>>
vars == <<status, chunks, synced, points, stored, request, queued, at, job,
          attempt, clash, deletion, cli, crashes, redeliveries>>

RowStatuses == {"pending", "processing", "ready", "failed"}
HasRow(d) == status[d] \in RowStatuses
Unresolved(d) == status[d] \in {"pending", "processing"}

Attempts == 0 .. MaxRetries

Places == { "idle", "load", "prepare", "replace", "deleting", "replacing", "clearPoints",
            "upsert", "markReady", "reread", "markFailed", "retry", "raised", "ack" }

CliIdle == [at |-> "idle", todo |-> {}, doc |-> None, action |-> "none"]
Actions == {"none", "MARK_READY", "QDRANT_UPSERT_ONLY", "FULL_REINGEST"}

(***************************************************************************)
(* A run of ingest_document is on d from its start until its process is    *)
(* done with it; a worker holds the message of d as long.                  *)
(***************************************************************************)
On(p, d) == at[p] # "idle" /\ job[p] = d
Replacing(p, d) == at[p] = "replacing" /\ job[p] = d
InChunkTransaction(p, d) == at[p] \in {"deleting", "replacing"} /\ job[p] = d
Outstanding(d) == \/ \E n \in Attempts : queued[d][n] > 0
                  \/ \E p \in Procs : On(p, d)

\* Uncommitted deletes of existing chunk rows lock them against other writers.
ChunkRowsLocked(d) ==
  /\ chunks[d] # "none"
  /\ \E q \in Procs : Replacing(q, d) /\ ~clash[q]

-----------------------------------------------------------------------------
\* The updates of DocumentIngestionRepository: WHERE id = d, whatever the status.

\* Mutant: an upsert in place of the update.
MarkProcessingUpsert(d) ==
  /\ status' = [status EXCEPT ![d] = "processing"]
  /\ UNCHANGED <<chunks, synced>>

MarkProcessing(d) ==
  /\ status' = [status EXCEPT ![d] = IF HasRow(d) THEN "processing" ELSE @]
  /\ UNCHANGED <<chunks, synced>>

\* Chunk rows another run is replacing: the update waits for it and, like a delete,
\* sees none of the new ones, as if it had come before.
MarkReady(d) ==
  /\ status' = [status EXCEPT ![d] = IF HasRow(d) THEN "ready" ELSE @]
  /\ chunks' = [chunks EXCEPT ![d] = IF @ = "pending" THEN "embedded" ELSE @]
  /\ synced' = [synced EXCEPT ![d] = HasRow(d)]

\* Mutant: an upsert in place of the update.
MarkFailedUpsert(d) ==
  /\ status' = [status EXCEPT ![d] = "failed"]
  /\ UNCHANGED <<chunks, synced>>

MarkFailed(d) ==
  /\ status' = [status EXCEPT ![d] = IF HasRow(d) THEN "failed" ELSE @]
  /\ UNCHANGED <<chunks, synced>>

Publish(d, n) == queued' = [queued EXCEPT ![d][n] = @ + 1]

Init ==
  /\ status = [d \in Docs |-> "absent"]
  /\ chunks = [d \in Docs |-> "none"]
  /\ synced = [d \in Docs |-> FALSE]
  /\ points = [d \in Docs |-> FALSE]
  /\ stored = [d \in Docs |-> FALSE]
  /\ request = [d \in Docs |-> "none"]
  /\ queued = [d \in Docs |-> [n \in Attempts |-> 0]]
  /\ at = [p \in Procs |-> "idle"]
  /\ job = [p \in Procs |-> None]
  /\ attempt = [p \in Procs |-> 0]
  /\ clash = [p \in Procs |-> FALSE]
  /\ deletion = [d \in Docs |-> "none"]
  /\ cli = CliIdle
  /\ crashes = 0
  /\ redeliveries = 0

-----------------------------------------------------------------------------
(***************************************************************************)
(* The upload request: store the original, commit the row, publish the     *)
(* task; a broker error marks the document failed.                         *)
(***************************************************************************)

StoreUpload(d) ==
  /\ request[d] = "none"
  /\ \/ /\ request' = [request EXCEPT ![d] = "stored"]
        /\ stored' = [stored EXCEPT ![d] = TRUE]
     \/ /\ request' = [request EXCEPT ![d] = "done"]   \* rejected: the file is unlinked
        /\ UNCHANGED stored
  /\ UNCHANGED <<rowVars, points, queued, procVars, deletion, cli, budgetVars>>

CreatePending(d) ==
  /\ request[d] = "stored"
  /\ request' = [request EXCEPT ![d] = "committed"]
  /\ status' = [status EXCEPT ![d] = "pending"]
  /\ UNCHANGED <<chunks, synced, points, stored, queued, procVars, deletion,
                 cli, budgetVars>>

Enqueue(d) ==
  /\ UseAsync
  /\ request[d] = "committed"
  /\ request' = [request EXCEPT ![d] = "done"]
  /\ Publish(d, 0)
  /\ UNCHANGED <<rowVars, points, stored, procVars, deletion, cli, budgetVars>>

EnqueueFails(d) ==
  /\ UseAsync
  /\ request[d] = "committed"
  /\ request' = [request EXCEPT ![d] = "enqueueFailed"]
  /\ \/ "enqueueLost" \in Faults /\ UNCHANGED queued
     \/ "enqueueLate" \in Faults /\ Publish(d, 0)
  /\ UNCHANGED <<rowVars, points, stored, procVars, deletion, cli, budgetVars>>

MarkEnqueueFailure(d) ==
  /\ request[d] = "enqueueFailed"
  /\ request' = [request EXCEPT ![d] = "refused"]
  /\ MarkFailed(d)
  /\ UNCHANGED <<points, stored, queued, procVars, deletion, cli, budgetVars>>

\* USE_ASYNC_INGESTION off: the request runs ingest_document itself.
IngestInline(d, p) ==
  /\ ~UseAsync
  /\ request[d] = "committed"
  /\ at[p] = "idle"
  /\ request' = [request EXCEPT ![d] = "done"]
  /\ at' = [at EXCEPT ![p] = "load"]
  /\ job' = [job EXCEPT ![p] = d]
  /\ UNCHANGED <<rowVars, points, stored, queued, attempt, clash, deletion, cli,
                 budgetVars>>

\* The request ends early: killed, or its insert or its mark_failed raises.
RequestDies(d) ==
  /\ \/ "apiCrash" \in Faults /\ request[d] \in {"stored", "committed", "enqueueFailed"}
     \/ "dbError" \in Faults /\ request[d] \in {"stored", "enqueueFailed"}
  /\ request' = [request EXCEPT ![d] = "died"]
  /\ UNCHANGED <<rowVars, points, stored, queued, procVars, deletion, cli, budgetVars>>

-----------------------------------------------------------------------------
(***************************************************************************)
(* One run of ingest_document by process p. Its exceptions go to           *)
(* "markFailed" (deterministic, extraction and unforeseen errors) or to    *)
(* "retry" (RetryableIngestionError, which leaves the status alone).       *)
(***************************************************************************)

Go(p, from, to) == at[p] = from /\ at' = [at EXCEPT ![p] = to]
ErrorPlaces == {"markFailed", "retry"}
envVars == <<stored, request, deletion, cli, budgetVars>>

\* Mutant: a message stays visible to the other workers until it is acknowledged.
ReceiveShared(w, d, n) ==
  /\ queued[d][n] > 0
  /\ Go(w, "idle", "load")
  /\ job' = [job EXCEPT ![w] = d]
  /\ attempt' = [attempt EXCEPT ![w] = n]
  /\ UNCHANGED <<rowVars, points, queued, clash, envVars>>

\* Mutant: the task runs without its document_id argument.
ReceiveWithoutDocument(w, d, n) ==
  /\ queued[d][n] > 0
  /\ queued' = [queued EXCEPT ![d][n] = @ - 1]
  /\ Go(w, "idle", "load")
  /\ attempt' = [attempt EXCEPT ![w] = n]
  /\ UNCHANGED <<rowVars, points, job, clash, envVars>>

\* Celery hands a message to an idle worker, which keeps it until its ack.
Receive(w, d, n) ==
  /\ queued[d][n] > 0
  /\ queued' = [queued EXCEPT ![d][n] = @ - 1]
  /\ Go(w, "idle", "load")
  /\ job' = [job EXCEPT ![w] = d]
  /\ attempt' = [attempt EXCEPT ![w] = n]
  /\ UNCHANGED <<rowVars, points, clash, envVars>>

\* Mutant: mark_processing is not called.
LoadUnmarked(p) ==
  /\ at[p] = "load"
  /\ at' = [at EXCEPT ![p] = IF HasRow(job[p]) THEN "prepare" ELSE "markFailed"]
  /\ UNCHANGED <<rowVars, points, queued, job, attempt, clash, envVars>>

\* get_document and mark_processing; no row is a deterministic error.
Load(p) ==
  /\ at[p] = "load"
  /\ at' = [at EXCEPT ![p] = IF HasRow(job[p]) THEN "prepare" ELSE "markFailed"]
  /\ MarkProcessing(job[p])
  /\ UNCHANGED <<points, queued, job, attempt, clash, envVars>>

\* Read, extract, chunk, embed: no shared state changes, each may raise.
Prepare(p) ==
  /\ \/ Go(p, "prepare", "markFailed")
     \/ at[p] = "prepare" /\ stored[job[p]] /\ \E place \in {"replace", "retry"} : Go(p, "prepare", place)
  /\ UNCHANGED <<rowVars, points, queued, job, attempt, clash, envVars>>

\* replace_chunks_pending_embedding: the DELETE is issued, which fixes the rows it sees, ...
OpenReplace(p) ==
  /\ Go(p, "replace", "deleting")
  /\ clash' = [clash EXCEPT ![p] = FALSE]
  /\ UNCHANGED <<rowVars, points, queued, job, attempt, envVars>>

\* ... it waits for whoever holds them; rows replaced meanwhile are none of its own, ...
DeleteChunks(p) ==
  /\ Go(p, "deleting", "replacing")
  /\ clash[p] \/ ~ChunkRowsLocked(job[p])
  /\ UNCHANGED <<rowVars, points, queued, job, attempt, clash, envVars>>

(***************************************************************************)
(* ... then the INSERTs and the commit. Rows committed since the DELETE    *)
(* was issued have the same ids, and a deleted document no row to refer    *)
(* to: the flush raises IntegrityError, and mark_failed on the same        *)
(* session, which nothing rolled back, PendingRollbackError: the status    *)
(* stays as it is, and neither error is one the task retries.              *)
(***************************************************************************)
CommitReplace(p) ==
  LET d == job[p] IN
  /\ at[p] = "replacing"
  /\ IF clash[p] \/ ~HasRow(d)
     THEN /\ Go(p, "replacing", "raised")
          /\ UNCHANGED <<chunks, clash>>
     ELSE /\ Go(p, "replacing", "clearPoints")
          /\ chunks' = [chunks EXCEPT ![d] = "pending"]
          /\ clash' = [q \in Procs |-> clash[q] \/ (q # p /\ InChunkTransaction(q, d))]
  /\ UNCHANGED <<status, synced, points, queued, job, attempt, envVars>>

\* ensure_collection and delete_document_points; a call that raises may have been applied.
ClearPoints(p) ==
  /\ \/ /\ Go(p, "clearPoints", "upsert")
        /\ points' = [points EXCEPT ![job[p]] = FALSE]
     \/ \E place \in ErrorPlaces, kept \in BOOLEAN :
           /\ Go(p, "clearPoints", place)
           /\ points' = [points EXCEPT ![job[p]] = @ /\ kept]
  /\ UNCHANGED <<rowVars, queued, job, attempt, clash, envVars>>

\* Mutant: an error of upsert_chunks is logged and passed over.
UpsertPointsBestEffort(p) ==
  /\ Go(p, "upsert", "markReady")
  /\ \E applied \in BOOLEAN : points' = [points EXCEPT ![job[p]] = @ \/ applied]
  /\ UNCHANGED <<rowVars, queued, job, attempt, clash, envVars>>

UpsertPoints(p) ==
  /\ \/ /\ Go(p, "upsert", "markReady")
        /\ points' = [points EXCEPT ![job[p]] = TRUE]
     \/ \E place \in ErrorPlaces, applied \in BOOLEAN :
           /\ Go(p, "upsert", place)
           /\ points' = [points EXCEPT ![job[p]] = @ \/ applied]
  /\ UNCHANGED <<rowVars, queued, job, attempt, clash, envVars>>

FinishReady(p) ==
  /\ Go(p, "markReady", "reread")
  /\ MarkReady(job[p])
  /\ UNCHANGED <<points, queued, job, attempt, clash, envVars>>

\* get_document for the result; a row deleted meanwhile raises, with nothing to mark.
Reread(p) ==
  /\ Go(p, "reread", "ack")
  /\ UNCHANGED <<rowVars, points, queued, job, attempt, clash, envVars>>

FinishFailed(p) ==
  /\ Go(p, "markFailed", "raised")
  /\ MarkFailed(job[p])
  /\ UNCHANGED <<points, queued, job, attempt, clash, envVars>>

\* A database call raises: the session is unusable, so mark_failed raises too.
DatabaseRaises(p) ==
  /\ "dbError" \in Faults
  /\ \/ \E from \in {"load", "deleting", "replacing", "markReady", "reread", "markFailed"} :
           Go(p, from, "raised")
     \/ p \in Workers /\ Go(p, "raised", "ack")
  /\ UNCHANGED <<rowVars, points, queued, job, attempt, clash, envVars>>

-----------------------------------------------------------------------------
(***************************************************************************)
(* The Celery task around it: autoretry publishes the message with one     *)
(* more retry, or gives up; on_failure marks the document failed when the  *)
(* retries are used up; acks_late acknowledges after all of that.          *)
(***************************************************************************)

\* Mutant: the retry does not count.
AutoretryUncounted(w) ==
  /\ Go(w, "retry", "ack")
  /\ attempt[w] < MaxRetries
  /\ Publish(job[w], attempt[w])
  /\ UNCHANGED <<rowVars, points, job, attempt, clash, envVars>>

\* Mutant: every failed attempt marks the document failed, its retry notwithstanding.
AutoretryMarkedFailed(w) ==
  /\ Go(w, "retry", "ack")
  /\ attempt[w] < MaxRetries
  /\ Publish(job[w], attempt[w] + 1)
  /\ MarkFailed(job[w])
  /\ UNCHANGED <<points, job, attempt, clash, envVars>>

Autoretry(w) ==
  /\ Go(w, "retry", "ack")
  /\ attempt[w] < MaxRetries
  /\ Publish(job[w], attempt[w] + 1)
  /\ UNCHANGED <<rowVars, points, job, attempt, clash, envVars>>

RetriesExhausted(w) ==
  /\ attempt[w] >= MaxRetries
  /\ Go(w, "retry", "raised")
  /\ UNCHANGED <<rowVars, points, queued, job, attempt, clash, envVars>>

\* Mutant: off by one.
OnFailureTooLate(w) ==
  /\ Go(w, "raised", "ack")
  /\ IF attempt[w] > MaxRetries THEN MarkFailed(job[w]) ELSE UNCHANGED rowVars
  /\ UNCHANGED <<points, queued, job, attempt, clash, envVars>>

OnFailure(w) ==
  /\ Go(w, "raised", "ack")
  /\ IF attempt[w] >= MaxRetries THEN MarkFailed(job[w]) ELSE UNCHANGED rowVars
  /\ UNCHANGED <<points, queued, job, attempt, clash, envVars>>

Release(p) ==
  /\ job' = [job EXCEPT ![p] = None]
  /\ attempt' = [attempt EXCEPT ![p] = 0]
  /\ clash' = [clash EXCEPT ![p] = FALSE]

Ack(w) ==
  /\ Go(w, "ack", "idle")
  /\ Release(w)
  /\ UNCHANGED <<rowVars, points, queued, envVars>>

\* reject_on_worker_lost: the message goes back as it was; an open transaction rolls back.
WorkerCrash(w) ==
  /\ "workerCrash" \in Faults
  /\ crashes < MaxCrashes
  /\ crashes' = crashes + 1
  /\ at[w] # "idle"
  /\ at' = [at EXCEPT ![w] = "idle"]
  /\ Publish(job[w], attempt[w])
  /\ Release(w)
  /\ UNCHANGED <<rowVars, points, stored, request, deletion, cli, redeliveries>>

\* The broker's visibility timeout passes while the worker still holds the message.
Redeliver(w) ==
  /\ "redelivery" \in Faults
  /\ redeliveries < MaxRedeliveries
  /\ redeliveries' = redeliveries + 1
  /\ at[w] # "idle"
  /\ Publish(job[w], attempt[w])
  /\ UNCHANGED <<rowVars, points, stored, request, procVars, deletion, cli, crashes>>

\* The reconciliation CLI goes on with its list of stale documents.
CliNext == IF cli.todo = {} THEN CliIdle
           ELSE [at |-> "planning", todo |-> cli.todo, doc |-> None, action |-> "none"]

\* Without Celery nothing retries: the run ends where its exception leaves it.
InlineEnds(p) ==
  /\ at[p] \in {"retry", "raised", "ack"}
  /\ at' = [at EXCEPT ![p] = "idle"]
  /\ Release(p)
  /\ cli' = IF p \in CliThreads
            THEN IF at[p] = "ack" THEN CliNext ELSE CliIdle
            ELSE cli
  /\ UNCHANGED <<rowVars, points, stored, queued, request, deletion, budgetVars>>

InlineDies(p) ==
  /\ \/ p \in ApiThreads /\ "apiCrash" \in Faults /\ UNCHANGED cli
     \/ p \in CliThreads /\ "cliCrash" \in Faults /\ cli' = CliIdle
  /\ at[p] # "idle"
  /\ at' = [at EXCEPT ![p] = "idle"]
  /\ Release(p)
  /\ UNCHANGED <<rowVars, points, stored, queued, request, deletion, budgetVars>>

-----------------------------------------------------------------------------
(***************************************************************************)
(* The delete request: the points, then the row with what refers to it,    *)
(* then the original; an error of the last is only logged.                 *)
(***************************************************************************)

\* Mutant: the original goes first.
DeletePointsAndFile(d) ==
  /\ deletion[d] = "none"
  /\ HasRow(d)
  /\ points' = [points EXCEPT ![d] = FALSE]
  /\ stored' = [stored EXCEPT ![d] = FALSE]
  /\ deletion' = [deletion EXCEPT ![d] = "pointsGone"]
  /\ UNCHANGED <<rowVars, request, queued, procVars, cli, budgetVars>>

DeletePoints(d) ==
  /\ deletion[d] = "none"
  /\ HasRow(d)
  /\ points' = [points EXCEPT ![d] = FALSE]
  /\ deletion' = [deletion EXCEPT ![d] = "pointsGone"]
  /\ UNCHANGED <<rowVars, stored, request, queued, procVars, cli, budgetVars>>

DeleteRow(d) ==
  /\ deletion[d] = "pointsGone"
  /\ ~ChunkRowsLocked(d)
  /\ status' = [status EXCEPT ![d] = "deleted"]
  /\ chunks' = [chunks EXCEPT ![d] = "none"]
  /\ synced' = [synced EXCEPT ![d] = FALSE]
  /\ deletion' = [deletion EXCEPT ![d] = "rowGone"]
  /\ UNCHANGED <<points, stored, request, queued, procVars, cli, budgetVars>>

DeleteAborted(d) ==
  /\ "deleteAborted" \in Faults
  /\ deletion[d] = "pointsGone"
  /\ deletion' = [deletion EXCEPT ![d] = "none"]
  /\ UNCHANGED <<rowVars, points, stored, request, queued, procVars, cli, budgetVars>>

DeleteFile(d) ==
  /\ deletion[d] = "rowGone"
  /\ deletion' = [deletion EXCEPT ![d] = "done"]
  /\ stored' \in {stored, [stored EXCEPT ![d] = FALSE]}
  /\ UNCHANGED <<rowVars, points, request, queued, procVars, cli, budgetVars>>

-----------------------------------------------------------------------------
(***************************************************************************)
(* The reconciliation CLI: list the stale processing documents, then plan  *)
(* and apply one by one. Any processing document may be past the cutoff of *)
(* ten minutes: its worker may be gone, in backoff, or just slow.          *)
(***************************************************************************)

ListStale(S) ==
  /\ Reconcile
  /\ cli.at = "idle"
  /\ S # {} /\ \A d \in S : status[d] = "processing"
  /\ cli' = [cli EXCEPT !.at = "planning", !.todo = S]
  /\ UNCHANGED <<rowVars, points, stored, request, queued, procVars, deletion, budgetVars>>

RecoveryAction(d) ==
  CASE synced[d] /\ status[d] # "ready" -> "MARK_READY"
    [] ~(synced[d] /\ status[d] # "ready") /\ chunks[d] = "pending" -> "QDRANT_UPSERT_ONLY"
    [] OTHER -> "FULL_REINGEST"

\* A row that is gone raises ValueError, which ends the CLI.
PlanRecovery(d) ==
  /\ cli.at = "planning"
  /\ d \in cli.todo
  /\ cli' = IF HasRow(d)
            THEN [at |-> "applying", todo |-> cli.todo \ {d}, doc |-> d,
                  action |-> RecoveryAction(d)]
            ELSE CliIdle
  /\ UNCHANGED <<rowVars, points, stored, request, queued, procVars, deletion, budgetVars>>

ApplyMarkReady ==
  /\ cli.at = "applying"
  /\ cli.action = "MARK_READY"
  /\ MarkReady(cli.doc)
  /\ cli' = CliNext
  /\ UNCHANGED <<points, stored, request, queued, procVars, deletion, budgetVars>>

\* FULL_REINGEST with an ingestion service: the CLI runs ingest_document itself.
ApplyReingest(p) ==
  /\ cli.at = "applying"
  /\ cli.action = "FULL_REINGEST"
  /\ Go(p, "idle", "load")
  /\ job' = [job EXCEPT ![p] = cli.doc]
  /\ cli' = [CliNext EXCEPT !.at = "reingesting"]
  /\ UNCHANGED <<rowVars, points, stored, request, queued, attempt, clash, deletion,
                 budgetVars>>

\* Every other plan is answered applied = FALSE.
ApplyNothing ==
  /\ cli.at = "applying"
  /\ \/ cli.action = "QDRANT_UPSERT_ONLY"
     \/ cli.action = "FULL_REINGEST" /\ CliThreads = {}
  /\ cli' = CliNext
  /\ UNCHANGED <<rowVars, points, stored, request, queued, procVars, deletion, budgetVars>>

CliDies ==
  /\ "cliCrash" \in Faults
  /\ cli.at \in {"planning", "applying"}
  /\ cli' = CliIdle
  /\ UNCHANGED <<rowVars, points, stored, request, queued, procVars, deletion, budgetVars>>

-----------------------------------------------------------------------------
UploadNext(d) == \/ StoreUpload(d) \/ CreatePending(d) \/ Enqueue(d) \/ EnqueueFails(d)
                 \/ MarkEnqueueFailure(d) \/ RequestDies(d)
                 \/ \E p \in ApiThreads : IngestInline(d, p)

IngestNext(p) == \/ Load(p) \/ Prepare(p) \/ OpenReplace(p) \/ DeleteChunks(p)
                 \/ CommitReplace(p) \/ ClearPoints(p) \/ UpsertPoints(p) \/ FinishReady(p) \/ Reread(p)
                 \/ FinishFailed(p)

TaskNext(w) == \/ \E d \in Docs, n \in Attempts : Receive(w, d, n)
               \/ Autoretry(w) \/ RetriesExhausted(w) \/ OnFailure(w) \/ Ack(w)

FaultNext(w) == WorkerCrash(w) \/ Redeliver(w)

DeleteNext(d) == DeletePoints(d) \/ DeleteRow(d) \/ DeleteAborted(d) \/ DeleteFile(d)

CliStep == \/ \E d \in Docs : PlanRecovery(d)
           \/ ApplyMarkReady \/ ApplyNothing \/ CliDies
           \/ \E p \in CliThreads : ApplyReingest(p)
           \/ \E S \in SUBSET Docs : ListStale(S)

Next == \/ \E d \in Docs : UploadNext(d) \/ DeleteNext(d)
        \/ \E p \in Procs : IngestNext(p) \/ DatabaseRaises(p)
        \/ \E w \in Workers : TaskNext(w) \/ FaultNext(w)
        \/ \E p \in ApiThreads \cup CliThreads : InlineEnds(p) \/ InlineDies(p)
        \/ CliStep

Spec == Init /\ [][Next]_vars

-----------------------------------------------------------------------------
(***************************************************************************)
(* Fairness. A request that committed its row runs on, idle workers take   *)
(* messages (the queue has a consumer, restarted when lost), and a run of  *)
(* ingest_document that can go on does: every await in it is bounded by a  *)
(* client timeout. Nothing is assumed of users, faults and the CLI.        *)
(***************************************************************************)
RequestGoesOn(d) == \/ CreatePending(d) \/ Enqueue(d) \/ EnqueueFails(d)
                    \/ MarkEnqueueFailure(d)
                    \/ \E p \in ApiThreads : IngestInline(d, p)

Fairness ==
  /\ \A d \in Docs : WF_vars(RequestGoesOn(d))
  /\ \A p \in Procs : WF_vars(IngestNext(p))
  /\ \A w \in Workers : WF_vars(TaskNext(w))
  /\ \A p \in ApiThreads \cup CliThreads : WF_vars(InlineEnds(p))

FairSpec == Spec /\ Fairness

-----------------------------------------------------------------------------
RowTypes ==
  /\ status \in [Docs -> RowStatuses \cup {"absent", "deleted"}]
  /\ chunks \in [Docs -> {"none", "pending", "embedded"}]
  /\ synced \in [Docs -> BOOLEAN]
DataTypes ==
  /\ points \in [Docs -> BOOLEAN]
  /\ stored \in [Docs -> BOOLEAN]
RequestTypes ==
  /\ request \in [Docs -> {"none", "stored", "committed", "enqueueFailed", "refused",
                       "died", "done"}]
  /\ deletion \in [Docs -> {"none", "pointsGone", "rowGone", "done"}]
QueueType == queued \in [Docs -> [Attempts -> Nat]]
RunTypes ==
  /\ at \in [Procs -> Places]
  /\ job \in [Procs -> Docs \cup {None}]
  /\ \A p \in Procs : at[p] # "idle" => job[p] \in Docs
  /\ attempt \in [Procs -> Attempts]
  /\ clash \in [Procs -> BOOLEAN]
CliType ==
  /\ cli \in [at : {"idle", "planning", "applying", "reingesting"},
              todo : SUBSET Docs, doc : Docs \cup {None}, action : Actions]
  /\ cli.at = "applying" => cli.doc \in Docs
BudgetTypes ==
  /\ crashes \in 0 .. MaxCrashes
  /\ redeliveries \in 0 .. MaxRedeliveries

TypeOK == /\ RowTypes /\ DataTypes /\ RequestTypes /\ QueueType
          /\ RunTypes /\ CliType /\ BudgetTypes

(***************************************************************************)
(* A document that is pending or processing has someone left to resolve    *)
(* it: its upload request before the task is published, a message in the   *)
(* broker, or a run of ingest_document. No worker lets go of its message   *)
(* with the document unresolved, unless a retry or another run remains.    *)
(* Only an upload request that died strands a document, and as pending:    *)
(* nobody lists it, since the CLI asks for processing ones.                *)
(***************************************************************************)
Responsible(d) == request[d] \in {"committed", "enqueueFailed"} \/ Outstanding(d)
NoStranded == \A d \in Docs :
  Unresolved(d) => Responsible(d) \/ (request[d] = "died" /\ status[d] = "pending")

(***************************************************************************)
(* A ready document can be retrieved: its chunk rows are embedded, Qdrant  *)
(* has its points, and qdrant_synced_at says so; only a delete request in  *)
(* progress takes the points first.                                        *)
(***************************************************************************)
Indexed(d) == chunks[d] = "embedded" /\ points[d] /\ synced[d]
ReadyIndexed == \A d \in Docs : status[d] = "ready" /\ deletion[d] = "none" => Indexed(d)

(***************************************************************************)
(* Two runs of ingest_document are never on one document, but for a run    *)
(* that only has its acknowledgement left while the retry it published     *)
(* is already running.                                                     *)
(***************************************************************************)
NoOverlap == \A d \in Docs, p, q \in Procs :
               p # q /\ On(p, d) /\ On(q, d) => "ack" \in {at[p], at[q]}

\* "Stored originals retained when ingestion fails": a row always has its file.
OriginalRetained == \A d \in Docs : HasRow(d) => stored[d]

(***************************************************************************)
(* Whatever is redelivered, crashed or reconciled: a row is created once   *)
(* and as pending, nothing follows its deletion, and it becomes ready only *)
(* after an ingestion began.                                               *)
(***************************************************************************)
LegalChange(from, to) ==
  \/ from = "absent" /\ to = "pending"
  \/ from = "pending" /\ to \in {"processing", "failed", "deleted"}
  \/ from \in {"processing", "ready", "failed"} /\ to \in {"processing", "ready", "failed", "deleted"}
LegalStatusChanges ==
  [][\A d \in Docs : status'[d] # status[d] => LegalChange(status[d], status'[d])]_vars

(***************************************************************************)
(* "pending -> processing -> ready | failed", once and in this order, for  *)
(* every document whose task is delivered once, whatever the CLI lists,    *)
(* plans and applies late, as long as the database answers and the CLI     *)
(* ingests nothing itself. A publish that raised fails the document, and   *)
(* the task may be heard all the same. Only a lost worker or a redelivery  *)
(* takes a decided document back.                                          *)
(***************************************************************************)
InOrder(from, to) ==
  \/ <<from, to>> \in { <<"absent", "pending">>, <<"pending", "processing">>,
                        <<"processing", "ready">>, <<"processing", "failed">> }
  \/ from \in RowStatuses /\ to = "deleted"
Refused(d, from, to) ==
  \/ request[d] = "enqueueFailed" /\ to = "failed"
  \/ request[d] = "refused" /\ from = "failed" /\ to \in {"processing", "ready"}
DeliveredAgain(from, to) ==
  crashes + redeliveries > 0 /\ {from, to} \subseteq {"processing", "ready", "failed"}
DecisionsStand ==
  [][\A d \in Docs : status'[d] # status[d] =>
       \/ InOrder(status[d], status'[d])
       \/ Refused(d, status[d], status'[d])
       \/ DeliveredAgain(status[d], status'[d])]_vars

\* Every upload ends resolved for good: no crash or redelivery keeps it from settling.
Settles == \A d \in Docs : <>[]~Unresolved(d)

-----------------------------------------------------------------------------
(***************************************************************************)
(* What the documentation says and the code does not keep.                 *)
(***************************************************************************)

(***************************************************************************)
(* "index in Qdrant -> mark ready", and the reconciler's MARK_READY on     *)
(* "qdrant synced but document not ready": once nothing works on a ready   *)
(* document any more, its points are there.                                *)
(***************************************************************************)
ReadyServed == \A d \in Docs :
  status[d] = "ready" /\ deletion[d] = "none" /\ ~Outstanding(d) => points[d]

\* "Hard-delete document (file + vectors + DB)": its points are gone for good.
HardDeleted == \A d \in Docs : deletion[d] = "done" /\ ~Outstanding(d) => ~points[d]
=============================================================================
